---- MODULE Spec2Model ----
(***************************************************************************)
(* Model of the subwayfinder station-resolution pipeline                   *)
(* (src/src/services/mbtaApi.js) and of the code that drives it.           *)
(*                                                                         *)
(* Representation of JavaScript values                                     *)
(*   string   a sequence of one-character strings, so that toLowerCase,    *)
(*            trim and includes are computed character by character;       *)
(*            null, undefined and '' (all falsy) are the empty sequence    *)
(*            wherever the code only tests a string with ||                *)
(*   number   coordinates are integers in units of 1e-7 degree (E7);       *)
(*            distances are integers in units of 1e-4 mile; a missing      *)
(*            (null) coordinate is NullCoord                               *)
(*   object   a record with a "tag" field: "object", "null", "undefined"   *)
(***************************************************************************)
EXTENDS Integers, Sequences, FiniteSets, TLC

(***************************************************************************)
(* Bounds of the model                                                     *)
(***************************************************************************)
\* longest stop list the stops endpoint serves in the station specification
MaxStops == 4

(***************************************************************************)
(* Strings                                                                 *)
(***************************************************************************)
UpperCase ==
  <<"A","B","C","D","E","F","G","H","I","J","K","L","M",
    "N","O","P","Q","R","S","T","U","V","W","X","Y","Z">>

LowerCase ==
  <<"a","b","c","d","e","f","g","h","i","j","k","l","m",
    "n","o","p","q","r","s","t","u","v","w","x","y","z">>

WhiteSpace == {" ", "\t", "\n", "\r"}

toLowerCaseChar(c) ==
  IF \E i \in 1..26 : UpperCase[i] = c
  THEN LowerCase[CHOOSE i \in 1..26 : UpperCase[i] = c]
  ELSE c

\* String.prototype.toLowerCase
toLowerCase(s) == [i \in 1..Len(s) |-> toLowerCaseChar(s[i])]

\* String.prototype.trim: drop leading and trailing white space
trim(s) ==
  LET keep == {i \in 1..Len(s) : s[i] \notin WhiteSpace}
  IN IF keep = {} THEN <<>>
     ELSE LET lo == CHOOSE i \in keep : \A j \in keep : i <= j
              hi == CHOOSE i \in keep : \A j \in keep : j <= i
          IN SubSeq(s, lo, hi)

\* String.prototype.includes
includes(s, sub) ==
  \E i \in 0..(Len(s) - Len(sub)) : SubSeq(s, i + 1, i + Len(sub)) = sub

\* a || b on strings
OrStr(a, b) == IF a # <<>> THEN a ELSE b

(***************************************************************************)
(* Fixed-point arithmetic.  Quot truncates toward zero, so that            *)
(* Quot(-a, b) = -Quot(a, b) as IEEE division is sign-symmetric.           *)
(***************************************************************************)
Abs(x) == IF x < 0 THEN -x ELSE x

Sgn(x) == IF x < 0 THEN -1 ELSE IF x > 0 THEN 1 ELSE 0

Quot(a, b) == Sgn(a) * (Abs(a) \div b)

RECURSIVE SqrtSearch(_, _, _)
SqrtSearch(n, lo, hi) ==
  IF lo >= hi THEN lo
  ELSE LET mid == (lo + hi + 1) \div 2
       IN IF mid * mid <= n THEN SqrtSearch(n, mid, hi)
          ELSE SqrtSearch(n, lo, mid - 1)

\* Math.sqrt on a value scaled by 1e16; the result is scaled by 1e8
Sqrt(n) == SqrtSearch(n, 0, 46340)

\* x * Math.PI / 180: degrees (E7) to radians scaled by 1e8
ToRad(x) ==
  LET hi == Quot(x, 100000)
      lo == x - hi * 100000
  IN hi * 17453 + Quot(lo * 17453, 100000)

\* Math.sin of a small angle (radians scaled by 1e8), result scaled by 1e8:
\* x - x^3/6, the later terms being below the resolution for |x| < 5e-4
Sin(x) == x - Quot(Quot(x * x, 100000000) * x, 600000000)

\* Math.cos (radians scaled by 1e8), result scaled by 1e4:
\* 1 - y^2/2 + y^4/24 - y^6/720 + y^8/40320
Cos(x) ==
  LET y  == Quot(x, 10000)
      y2 == Quot(y * y, 10000)
      y4 == Quot(y2 * y2, 10000)
      y6 == Quot(y4 * y2, 10000)
      y8 == Quot(y6 * y2, 10000)
  IN 10000 - Quot(y2, 2) + Quot(y4, 24) - Quot(y6, 720) + Quot(y8, 40320)

\* Math.atan2(y, x) for 0 <= y << x, x close to 1 (both scaled by 1e8):
\* y/x = y * (1 + (1 - x)) to first order
Atan2(y, x) == y + Quot(y * (100000000 - x), 100000000)

\* a distance whose longitude term is scaled by the first latitude alone
calculateDistance_FirstLatitude(lat1, lon1, lat2, lon2) ==
  LET R == 6371
      dLat == ToRad(lat2 - lat1)
      dLon == ToRad(lon2 - lon1)
      sLat == Sin(Quot(dLat, 2))
      sLon == Sin(Quot(dLon, 2))
      cc   == Quot(Cos(ToRad(lat1)) * Cos(ToRad(lat1)), 10000)
      a    == sLat * sLat + Quot(cc * sLon, 10000) * sLon
      c    == 2 * Atan2(Sqrt(a), 100000000 - Quot(a, 200000000))
      distanceKm == R * c
  IN Quot(Quot(distanceKm, 10000) * 6214, 10000)

\* src/src/services/mbtaApi.js:63-74; the result is in 1e-4 mile
calculateDistance(lat1, lon1, lat2, lon2) ==
  LET R == 6371
      dLat == ToRad(lat2 - lat1)
      dLon == ToRad(lon2 - lon1)
      sLat == Sin(Quot(dLat, 2))
      sLon == Sin(Quot(dLon, 2))
      cc   == Quot(Cos(ToRad(lat1)) * Cos(ToRad(lat2)), 10000)
      a    == sLat * sLat + Quot(cc * sLon, 10000) * sLon
      c    == 2 * Atan2(Sqrt(a), 100000000 - Quot(a, 200000000))
      distanceKm == R * c
  IN Quot(Quot(distanceKm, 10000) * 6214, 10000)

(***************************************************************************)
(* Route classification                                                    *)
(***************************************************************************)
Str_Red      == <<"R","e","d">>
Str_Orange   == <<"O","r","a","n","g","e">>
Str_Blue     == <<"B","l","u","e">>
Str_Green    == <<"G","r","e","e","n">>
Str_Mattapan == <<"M","a","t","t","a","p","a","n">>

\* the keys of MBTA_LINES; "null" is getLineInfo's null
MBTA_LINES ==
  {"Red", "Orange", "Blue", "Green-B", "Green-C", "Green-D", "Green-E",
   "Mattapan"}

\* a raw route: id, and attributes (absent when hasAttrs is FALSE)
RawRoute(id, hasAttrs, long_name, short_name) ==
  [id |-> id, hasAttrs |-> hasAttrs,
   long_name |-> long_name, short_name |-> short_name]

\* the tests of getLineInfo in the order of its return statements
\* (mbtaApi.js:86-112); the fallback for a Green route follows them
LineRules ==
  <<"Red", "Orange", "Blue", "Green-B", "Green-C", "Green-D", "Green-E",
    "Mattapan">>

\* the condition under which getLineInfo's test for the line is true
RuleMatches(line, route) ==
  LET routeName == OrStr(route.long_name, route.short_name)
      routeId == route.id
      named(w) == includes(routeName, w) \/ includes(routeId, w)
      branch(x) == includes(routeName, Str_Green) /\ includes(routeName, <<x>>)
  IN CASE line = "Red" -> named(Str_Red)
       [] line = "Orange" -> named(Str_Orange)
       [] line = "Blue" -> named(Str_Blue)
       [] line = "Green-B" -> branch("B")
       [] line = "Green-C" -> branch("C")
       [] line = "Green-D" -> branch("D")
       [] line = "Green-E" -> branch("E")
       [] OTHER -> named(Str_Mattapan)

\* a classification in which the last test that is true decides
getLineInfo_LastRule(route) ==
  IF ~route.hasAttrs THEN "null"
  ELSE
    LET hits == {i \in 1..Len(LineRules) : RuleMatches(LineRules[i], route)}
    IN IF hits # {}
         THEN LineRules[CHOOSE i \in hits : \A j \in hits : j <= i]
       ELSE IF includes(OrStr(route.long_name, route.short_name), Str_Green)
               \/ includes(route.id, Str_Green)
         THEN "Green-B"
       ELSE "null"

getLineInfo(route) ==
  IF ~route.hasAttrs THEN "null"
  ELSE
    LET routeName == OrStr(route.long_name, route.short_name)
        routeId == route.id
    IN IF includes(routeName, Str_Red) \/ includes(routeId, Str_Red)
         THEN "Red"
       ELSE IF includes(routeName, Str_Orange) \/ includes(routeId, Str_Orange)
         THEN "Orange"
       ELSE IF includes(routeName, Str_Blue) \/ includes(routeId, Str_Blue)
         THEN "Blue"
       ELSE IF includes(routeName, Str_Green) /\ includes(routeName, <<"B">>)
         THEN "Green-B"
       ELSE IF includes(routeName, Str_Green) /\ includes(routeName, <<"C">>)
         THEN "Green-C"
       ELSE IF includes(routeName, Str_Green) /\ includes(routeName, <<"D">>)
         THEN "Green-D"
       ELSE IF includes(routeName, Str_Green) /\ includes(routeName, <<"E">>)
         THEN "Green-E"
       ELSE IF includes(routeName, Str_Mattapan)
               \/ includes(routeId, Str_Mattapan)
         THEN "Mattapan"
       ELSE IF includes(routeName, Str_Green) \/ includes(routeId, Str_Green)
         THEN "Green-B"
       ELSE "null"

\* the routeInfo object pushed for a classified route (mbtaApi.js:264-268)
RouteInfo(route) ==
  [id |-> route.id,
   name |-> OrStr(route.long_name, route.short_name),
   line |-> getLineInfo(route)]

\* a loop that pushes every route, classified or not
ClassifyRoutes_KeepAll(data) == [i \in 1..Len(data) |-> RouteInfo(data[i])]

\* the routes array built from a per-stop response (mbtaApi.js:260-272)
ClassifyRoutes(data) ==
  LET kept == SelectSeq(data, LAMBDA route : getLineInfo(route) # "null")
  IN [i \in 1..Len(kept) |-> RouteInfo(kept[i])]

(***************************************************************************)
(* Grouping, ranking and merging of stops (fetchNearbyStations)            *)
(***************************************************************************)
\* a coordinate the response does not carry (null)
NullCoord == 2000000000

\* a raw stop of the stops response, attributes flattened
RawStop(id, name, latitude, longitude, wheelchair_boarding) ==
  [id |-> id, name |-> name, latitude |-> latitude, longitude |-> longitude,
   wheelchair_boarding |-> wheelchair_boarding]

\* Number.prototype.toFixed(6) of an E7 number: the sign of the number and
\* the digits of its magnitude rounded to 6 decimals.  A negative number
\* keeps its "-" even when the digits are all zero ("-0.000000").
toFixed6(x) == [neg |-> x < 0, digits |-> (Abs(x) + 5) \div 10]

\* `${name}_${lat}_${lon}`.  lat and lon hold no "_", so the string
\* determines its three parts and is modelled by the triple.
createStationKey(stop) ==
  <<stop.name, toFixed6(stop.latitude), toFixed6(stop.longitude)>>

\* truthiness of a coordinate: null and 0 are falsy
Truthy(x) == x # NullCoord /\ x # 0

\* .filter(stop => stop.attributes.latitude && stop.attributes.longitude)
FilterStops(data) ==
  SelectSeq(data, LAMBDA stop : Truthy(stop.latitude) /\ Truthy(stop.longitude))

\* the object stationGroups.set creates for the first stop of a key
NewGroup(stop) ==
  [key |-> createStationKey(stop),
   stops |-> <<>>,
   name |-> stop.name,
   latitude |-> stop.latitude,
   longitude |-> stop.longitude,
   wheelchair_accessible |-> (stop.wheelchair_boarding = 1)]

\* the body of the forEach over the filtered stops
AddToGroups(groups, stop) ==
  LET stationKey == createStationKey(stop)
      has == \E i \in 1..Len(groups) : groups[i].key = stationKey
      gs == IF has THEN groups ELSE Append(groups, NewGroup(stop))
      at == CHOOSE i \in 1..Len(gs) : gs[i].key = stationKey
  IN [gs EXCEPT ![at].stops = Append(@, stop)]

RECURSIVE GroupFold(_, _)
GroupFold(stops, groups) ==
  IF stops = <<>> THEN groups
  ELSE GroupFold(Tail(stops), AddToGroups(groups, Head(stops)))

\* Array.from(stationGroups.values()): the groups in insertion order
StationGroups(data) == GroupFold(FilterStops(data), <<>>)

WithDistance(groups, latitude, longitude) ==
  [i \in 1..Len(groups) |->
     [stationGroup |-> groups[i],
      distance |-> calculateDistance(latitude, longitude,
                                     groups[i].latitude, groups[i].longitude)]]

\* variant of InRadius: the radius filter is missing
InRadius_NoFilter(station, radius) == station.distance >= 0

\* .filter(station => station.distance <= radius)
InRadius(station, radius) == station.distance <= radius

\* insertion of x behind every element that does not compare greater
InsertByDistance(sorted, x) ==
  LET n == Cardinality({i \in 1..Len(sorted) : sorted[i].distance <= x.distance})
  IN SubSeq(sorted, 1, n) \o <<x>> \o SubSeq(sorted, n + 1, Len(sorted))

RECURSIVE SortFold(_, _)
SortFold(rest, sorted) ==
  IF rest = <<>> THEN sorted
  ELSE SortFold(Tail(rest), InsertByDistance(sorted, Head(rest)))

\* .sort((a, b) => a.distance - b.distance), a stable sort
SortByDistance(seq) == SortFold(seq, <<>>)

\* Array.prototype.slice(0, n)
SliceTo(seq, n) == SubSeq(seq, 1, IF Len(seq) < n THEN Len(seq) ELSE n)

\* mbtaApi.js:206-222
StationsWithDistance(groups, latitude, longitude, radius) ==
  SliceTo(
    SortByDistance(
      SelectSeq(WithDistance(groups, latitude, longitude),
                LAMBDA station : InRadius(station, radius))),
    3)

maxStationsToFetch == 3

RECURSIVE CollectStopIds(_)
CollectStopIds(stations) ==
  IF stations = <<>> THEN <<>>
  ELSE LET stops == Head(stations).stationGroup.stops
       IN [i \in 1..Len(stops) |-> stops[i].id] \o CollectStopIds(Tail(stations))

\* mbtaApi.js:229-239
AllStopIds(stationsWithDistance) ==
  CollectStopIds(SliceTo(stationsWithDistance, maxStationsToFetch))

\* Map.prototype.set on a Map modelled as a function
MapSet(m, k, v) == [x \in (DOMAIN m) \cup {k} |-> IF x = k THEN v ELSE m[x]]

\* allRoutes.set(route.id, route): a new id is appended, a known id keeps
\* its place and takes the new value
RouteSet(routes, route) ==
  IF \E i \in 1..Len(routes) : routes[i].id = route.id
  THEN [i \in 1..Len(routes) |->
          IF routes[i].id = route.id THEN route ELSE routes[i]]
  ELSE Append(routes, route)

RECURSIVE RouteSetAll(_, _)
RouteSetAll(routes, more) ==
  IF more = <<>> THEN routes
  ELSE RouteSetAll(RouteSet(routes, Head(more)), Tail(more))

RECURSIVE GroupRoutes(_, _, _)
GroupRoutes(stops, stopRoutesMap, allRoutes) ==
  IF stops = <<>> THEN allRoutes
  ELSE LET stop == Head(stops)
           stopRoutes == IF stop.id \in DOMAIN stopRoutesMap
                         THEN stopRoutesMap[stop.id] ELSE <<>>
       IN GroupRoutes(Tail(stops), stopRoutesMap,
                      RouteSetAll(allRoutes, stopRoutes))

\* a flag that asks for a stop with at least one recorded route
hasRouteData_NonEmpty(stops, stopRoutesMap) ==
  \E i \in 1..Len(stops) :
    /\ stops[i].id \in DOMAIN stopRoutesMap
    /\ stopRoutesMap[stops[i].id] # <<>>

\* stationGroup.stops.some(stop => stopRoutesMap.has(stop.id))
\* (mbtaApi.js:295)
hasRouteData(stops, stopRoutesMap) ==
  \E i \in 1..Len(stops) : stops[i].id \in DOMAIN stopRoutesMap

\* the station object built for one ranked group (mbtaApi.js:286-328)
BuildStation(stationData, stopRoutesMap) ==
  LET stationGroup == stationData.stationGroup
  IN [id |-> stationGroup.stops[1].id,
      name |-> stationGroup.name,
      latitude |-> stationGroup.latitude,
      longitude |-> stationGroup.longitude,
      distance |-> stationData.distance,
      wheelchair_accessible |-> stationGroup.wheelchair_accessible,
      routes |-> IF hasRouteData(stationGroup.stops, stopRoutesMap)
                 THEN GroupRoutes(stationGroup.stops, stopRoutesMap, <<>>)
                 ELSE <<>>,
      hasRouteData |-> hasRouteData(stationGroup.stops, stopRoutesMap)]

StationsWithRoutes(stationsWithDistance, stopRoutesMap) ==
  [i \in 1..Len(stationsWithDistance) |->
     BuildStation(stationsWithDistance[i], stopRoutesMap)]

\* a comparison of names that folds the case and keeps the white space
NormName_NoTrim(name) == toLowerCase(name)

\* station.name.toLowerCase().trim()
NormName(name) == trim(toLowerCase(name))

\* variant of MergeRoutes: the duplicate's routes are dropped
MergeRoutes_KeepExisting(existingRoutes, routes) ==
  SelectSeq(existingRoutes, LAMBDA route : Len(routes) >= 0)

\* the routes of the duplicate that the existing station lacks are appended
\* (mbtaApi.js:341-350)
MergeRoutes(existingRoutes, routes) ==
  existingRoutes \o
  SelectSeq(routes,
            LAMBDA route : ~\E i \in 1..Len(existingRoutes) :
                              existingRoutes[i].id = route.id)

\* the else branch of the reduce callback (mbtaApi.js:339-363)
MergeInto(existingStation, station) ==
  LET closer == station.distance < existingStation.distance
  IN [existingStation EXCEPT
        !.routes = MergeRoutes(existingStation.routes, station.routes),
        !.distance = IF closer THEN station.distance ELSE @,
        !.latitude = IF closer THEN station.latitude ELSE @,
        !.longitude = IF closer THEN station.longitude ELSE @,
        !.wheelchair_accessible = (@ \/ station.wheelchair_accessible)]

\* the reduce callback (mbtaApi.js:331-366)
MergeStep(unique, station) ==
  LET stationNameLower == NormName(station.name)
      found == {i \in 1..Len(unique) : NormName(unique[i].name) = stationNameLower}
  IN IF found = {} THEN Append(unique, station)
     ELSE LET at == CHOOSE i \in found : \A j \in found : i <= j
          IN [unique EXCEPT ![at] = MergeInto(@, station)]

RECURSIVE MergeFold(_, _)
MergeFold(stations, unique) ==
  IF stations = <<>> THEN unique
  ELSE MergeFold(Tail(stations), MergeStep(unique, Head(stations)))

FinalStations(stationsWithRoutes) == MergeFold(stationsWithRoutes, <<>>)

(***************************************************************************)
(* The transit API's data: what the stops endpoint and the per-stop routes *)
(* endpoint serve.  A served stop is a record of its attributes and of the *)
(* raw routes that call at it; its id is its place in the served list.     *)
(***************************************************************************)
Str_Park  == <<"P","a","r","k">>
Str_park_ == <<"p","a","r","k"," ">>
Str_Ale   == <<"A","l","e">>
Str_DTX   == <<"D","T","X">>
Str_Far   == <<"F","a","r">>
Str_Eq    == <<"E","q">>

Route_Red ==
  RawRoute(Str_Red, TRUE, <<"R","e","d"," ","L","i","n","e">>, <<>>)
Route_Orange ==
  RawRoute(Str_Orange, TRUE, <<"O","r","a","n","g","e"," ","L","i","n","e">>, <<>>)
Route_Blue ==
  RawRoute(Str_Blue, TRUE, <<"B","l","u","e"," ","L","i","n","e">>, <<>>)
Route_GreenB ==
  RawRoute(<<"G","r","e","e","n","-","B">>, TRUE,
           <<"G","r","e","e","n"," ","L","i","n","e"," ","B">>, <<"B">>)
Route_GreenC ==
  RawRoute(<<"G","r","e","e","n","-","C">>, TRUE,
           <<"G","r","e","e","n"," ","L","i","n","e"," ","C">>, <<"C">>)
Route_Bus ==
  RawRoute(<<"1">>, TRUE, <<>>, <<"1">>)
Route_NoAttrs ==
  RawRoute(<<"7","4","1">>, FALSE, <<>>, <<>>)

Served(name, latitude, longitude, wheelchair_boarding, routes) ==
  [name |-> name, latitude |-> latitude, longitude |-> longitude,
   wheelchair_boarding |-> wheelchair_boarding, routes |-> routes]

\* stops around the default coordinate (42.3601, -71.0589)
PoolBoston ==
  { Served(Str_Park,  423554001, -710640000, 0, <<Route_Red>>),
    Served(Str_Park,  423554004, -710640000, 1, <<Route_GreenB, Route_GreenC>>),
    Served(Str_park_, 423564000, -710620000, 1, <<Route_GreenB, Route_Bus>>),
    Served(Str_Ale,   423701000, -710589000, 1, <<Route_Red, Route_NoAttrs>>),
    Served(Str_DTX,   423601000, -710539000, 2, <<Route_Orange, Route_Red>>),
    Served(Str_Far,   423901000, -710589000, 1, <<Route_Blue>>) }

\* stops on and next to the equator, where a coordinate is 0, changes sign
\* or is missing
PoolEquator ==
  { Served(Str_Eq, 4,         100000, 1, <<Route_Red>>),
    Served(Str_Eq, -4,        100000, 0, <<Route_Orange>>),
    Served(Str_Eq, 0,         100000, 1, <<Route_Blue>>),
    Served(Str_Eq, 14,        100000, 0, <<Route_GreenB>>),
    Served(Str_Eq, NullCoord, 100000, 1, <<Route_Red>>) }

\* the query coordinates and radii of the model
QueryBoston  == [latitude |-> 423601000, longitude |-> -710589000]
QueryEquator == [latitude |-> 50000, longitude |-> 100000]
Radii == {4000, 12500}

PoolNear(query) ==
  IF query.latitude = QueryBoston.latitude THEN PoolBoston ELSE PoolEquator

\* the data array of the stops response
StopsData(served) ==
  [i \in 1..Len(served) |->
     RawStop(i, served[i].name, served[i].latitude, served[i].longitude,
             served[i].wheelchair_boarding)]

\* the data array of the routes response for one stop
StopRoutesData(served, stopId) == served[stopId].routes

(***************************************************************************)
(* State                                                                   *)
(***************************************************************************)
\* concurrent calls of fetchNearbyStations
NumRes == 2
Res == 1..NumRes

VARIABLES
  apiStops,             \* the stops the API serves
  pc,                   \* pc[r]: where resolution r stands
  args,                 \* args[r]: latitude, longitude, radius
  stationGroups,        \* stationGroups[r]: the Map's values, in order
  stationsWithDistance, \* stationsWithDistance[r]
  allStopIds,           \* allStopIds[r]
  cur,                  \* cur[r]: position of the for loop in allStopIds[r]
  stopRoutesMap,        \* stopRoutesMap[r]
  ret,                  \* ret[r]: how the call completed, and its value
  clock,                \* Date.now(), in ms
  routesCache,          \* the module's routesCache
  routesCacheTimestamp, \* the module's routesCacheTimestamp
  now,                  \* now[r]: the const now of r's getRoutesData
  routesData,           \* routesData[r]: what getRoutesData gave r
  call,                 \* call[r]: the makeApiCall r is awaiting
  timer,                \* timer[r]: when r's pending setTimeout is due
  faults                \* requests the API has failed so far

\* the state of the Map component (Map.js) and of what it has under way
VARIABLES
  position,             \* useState: the pin, an array [latitude, longitude]
  userLocation,         \* useState: the stored user location
  loading,              \* useState
  error,                \* useState: the message, or null
  isUserLocation,       \* useState
  stations,             \* useState: the displayed station list
  loadingStations,      \* useState
  showStations,         \* useState: station display enabled
  gettingLocation,      \* useState
  geoSupported,         \* navigator.geolocation is present
  startup,              \* the getCurrentPosition request of the mount effect
  isLocationSet,        \* the mount effect's let isLocationSet
  geolocationTimeout,   \* the 20 s fallback timer is pending
  goTo,                 \* the getCurrentPosition request of goToMyLocation
  effectPending,        \* the station effect is due after the last render
  fetchTimers,          \* pending setTimeout(fetchStations, 10), in order
  errorTimers,          \* pending setTimeout(setError(null), 3000)
  actions,              \* clicks the user has made
  issued,               \* fetchStations calls that reached the service
  seq,                  \* seq[r]: which of them resolution r is
  applied,              \* the resolutions that have ended, in order
  handler               \* the handler that ran last

\* a call of one of the module's synchronous functions on its own
VARIABLES
  input,                \* the arguments of the call
  output                \* what the call returned, once it has

stationVars ==
  <<stationGroups, stationsWithDistance, allStopIds, cur, stopRoutesMap>>

apiVars ==
  <<clock, routesCache, routesCacheTimestamp, now, routesData, call, timer,
    faults>>

callVars == <<input, output>>

uiVars ==
  <<position, userLocation, loading, error, isUserLocation, stations,
    loadingStations, showStations, gettingLocation, geoSupported, startup,
    isLocationSet, geolocationTimeout, goTo, effectPending, fetchTimers,
    errorTimers, actions, issued, seq, applied, handler>>

vars ==
  <<apiStops, pc, args, stationGroups, stationsWithDistance, allStopIds,
    cur, stopRoutesMap, ret, clock, routesCache, routesCacheTimestamp, now,
    routesData, call, timer, faults, uiVars, input, output>>

NoArgs == [latitude |-> 0, longitude |-> 0, radius |-> 0]
Pending == [status |-> "pending", value |-> <<>>]
Returned(v) == [status |-> "returned", value |-> v]
Threw == [status |-> "threw", value |-> <<>>]

(***************************************************************************)
(* Values of the Map component.  A position is the array object the state  *)
(* holds: its two numbers and ref, the identity of the array, which is     *)
(* what React compares when it decides whether an effect runs again.       *)
(***************************************************************************)
Pos(latitude, longitude, ref) ==
  [latitude |-> latitude, longitude |-> longitude, ref |-> ref]

\* useState(null) for position and userLocation (Map.js:100-101)
NoPosition == Pos(NullCoord, NullCoord, 0)

\* useState(null) for error (Map.js:103)
NoError == ""

\* a variant in which station display starts enabled
InitialShowStations_On == TRUE

\* useState(false) for showStations (Map.js:107)
InitialShowStations == FALSE

\* no getCurrentPosition of goToMyLocation is under way
NoGoTo ==
  [state |-> "none", userLocation |-> NoPosition, position |-> NoPosition,
   showStations |-> FALSE]

\* the arguments and the value of a function that has not been called
NoInput == [fn |-> "none", arg |-> <<>>]
NoOutput == [fn |-> "none", value |-> <<>>]

\* the component as constructed, before its effects have run
\* (Map.js:100-108)
InitMap ==
  /\ position = NoPosition
  /\ userLocation = NoPosition
  /\ loading = TRUE
  /\ error = NoError
  /\ isUserLocation = TRUE
  /\ stations = <<>>
  /\ loadingStations = FALSE
  /\ showStations = InitialShowStations
  /\ gettingLocation = FALSE
  /\ startup = "unmounted"
  /\ isLocationSet = FALSE
  /\ geolocationTimeout = FALSE
  /\ goTo = NoGoTo
  /\ effectPending = FALSE
  /\ fetchTimers = <<>>
  /\ errorTimers = 0
  /\ actions = 0
  /\ issued = 0
  /\ seq = [r \in Res |-> 0]
  /\ applied = <<>>
  /\ handler = "init"

\* no synchronous function has been called on its own
NoCallAlone ==
  /\ input = NoInput
  /\ output = NoOutput

(***************************************************************************)
(* Values that travel through makeApiCall: a parsed JSON body, with or     *)
(* without a data array, undefined, and null.                              *)
(***************************************************************************)
Body(data) == [kind |-> "object", hasData |-> TRUE, data |-> data]
NoDataBody == [kind |-> "object", hasData |-> FALSE, data |-> <<>>]
Undefined  == [kind |-> "undefined", hasData |-> FALSE, data |-> <<>>]
Null       == [kind |-> "null", hasData |-> FALSE, data |-> <<>>]

\* a value in a condition (if (routesCache && ...)); an object is truthy
IsTruthy(v) == v.kind = "object"

\* the three request urls
RoutesUrl == [endpoint |-> "routes", stop |-> 0]
StopsUrl  == [endpoint |-> "stops", stop |-> 0]
StopRoutesUrl(stopId) == [endpoint |-> "stopRoutes", stop |-> stopId]

\* no setTimeout pending
NoTimer == -1

\* one event of a makeApiCall: a request issued (info: the attempt), a
\* response received (info: the status, 0 when fetch or response.json()
\* rejected), a wait ended (info: the ms it lasted)
Event(ev, info, body) == [ev |-> ev, info |-> info, body |-> body]

\* a makeApiCall: its url, its attempt, where it stands, when its wait
\* began, what it has done so far and what it returned
NoCall ==
  [url |-> RoutesUrl, attempt |-> 0, state |-> "none", since |-> 0,
   trace |-> <<>>, result |-> Undefined]

(***************************************************************************)
(* The station specification: the synchronous part of fetchNearbyStations  *)
(* applied to every served stop list of the bounds, with each per-stop     *)
(* route request either answered or failed.                                *)
(***************************************************************************)
InitStations ==
  /\ apiStops = <<>>
  /\ pc = [r \in Res |-> IF r = 1 THEN "serve" ELSE "idle"]
  /\ \E q \in {QueryBoston, QueryEquator}, radius \in Radii :
       args = [r \in Res |->
                 IF r = 1
                 THEN [latitude |-> q.latitude, longitude |-> q.longitude,
                       radius |-> radius]
                 ELSE NoArgs]
  /\ stationGroups = [r \in Res |-> <<>>]
  /\ stationsWithDistance = [r \in Res |-> <<>>]
  /\ allStopIds = [r \in Res |-> <<>>]
  /\ cur = [r \in Res |-> 1]
  /\ stopRoutesMap = [r \in Res |-> <<>>]
  /\ ret = [r \in Res |-> Pending]
  /\ clock = 0
  /\ routesCache = Null
  /\ routesCacheTimestamp = 0
  /\ now = [r \in Res |-> 0]
  /\ routesData = [r \in Res |-> Undefined]
  /\ call = [r \in Res |-> NoCall]
  /\ timer = [r \in Res |-> NoTimer]
  /\ faults = 0
  /\ InitMap
  /\ geoSupported = TRUE
  /\ NoCallAlone

\* the API's stop list grows by one stop
ServeStop ==
  /\ pc[1] = "serve"
  /\ Len(apiStops) < MaxStops
  /\ \E s \in PoolNear(args[1]) : apiStops' = Append(apiStops, s)
  /\ UNCHANGED <<pc, args, ret>>
  /\ UNCHANGED stationVars
  /\ UNCHANGED apiVars
  /\ UNCHANGED uiVars
  /\ UNCHANGED callVars

\* mbtaApi.js:177-241 on the stops response
RankStops(r) ==
  LET groups == StationGroups(StopsData(apiStops))
      ranked == StationsWithDistance(groups, args[r].latitude,
                                     args[r].longitude, args[r].radius)
  IN /\ stationGroups' = [stationGroups EXCEPT ![r] = groups]
     /\ stationsWithDistance' = [stationsWithDistance EXCEPT ![r] = ranked]
     /\ allStopIds' = [allStopIds EXCEPT ![r] = AllStopIds(ranked)]
     /\ cur' = [cur EXCEPT ![r] = 1]
     /\ stopRoutesMap' = [stopRoutesMap EXCEPT ![r] = <<>>]

Rank ==
  /\ pc[1] = "serve"
  /\ RankStops(1)
  /\ pc' = [pc EXCEPT ![1] = "routes"]
  /\ UNCHANGED <<apiStops, args, ret>>
  /\ UNCHANGED apiVars
  /\ UNCHANGED uiVars
  /\ UNCHANGED callVars

\* one iteration of the for loop (mbtaApi.js:246-281) whose request is
\* answered with the stop's routes (ok) or fails
RoutesForStop ==
  /\ pc[1] = "routes"
  /\ cur[1] <= Len(allStopIds[1])
  /\ \E ok \in BOOLEAN :
       LET stopId == allStopIds[1][cur[1]]
           routes == IF ok THEN ClassifyRoutes(StopRoutesData(apiStops, stopId))
                     ELSE <<>>
       IN stopRoutesMap' =
            [stopRoutesMap EXCEPT ![1] = MapSet(@, stopId, routes)]
  /\ cur' = [cur EXCEPT ![1] = @ + 1]
  /\ UNCHANGED <<apiStops, pc, args, stationGroups, stationsWithDistance,
                 allStopIds, ret>>
  /\ UNCHANGED apiVars
  /\ UNCHANGED uiVars
  /\ UNCHANGED callVars

\* mbtaApi.js:286-369
FinishWith(r, ranked, map) ==
  ret' = [ret EXCEPT ![r] =
            Returned(FinalStations(StationsWithRoutes(ranked, map)))]

Finish(r) == FinishWith(r, stationsWithDistance[r], stopRoutesMap[r])

BuildResult ==
  /\ pc[1] = "routes"
  /\ cur[1] > Len(allStopIds[1])
  /\ Finish(1)
  /\ pc' = [pc EXCEPT ![1] = "done"]
  /\ UNCHANGED <<apiStops, args>>
  /\ UNCHANGED stationVars
  /\ UNCHANGED apiVars
  /\ UNCHANGED uiVars
  /\ UNCHANGED callVars

NextStations == ServeStop \/ Rank \/ RoutesForStop \/ BuildResult

SpecStations == InitStations /\ [][NextStations]_vars

(***************************************************************************)
(* The API specification: fetchNearbyStations as the asynchronous function *)
(* it is, with makeApiCall, getRoutesData, the route cache, the clock and  *)
(* the timers.  Res resolutions run concurrently on one event loop; every  *)
(* action is the code between two awaits.                                  *)
(***************************************************************************)
\* requests the API may fail in one behaviour
MaxFaults == 2

maxRetries == 2
CACHE_DURATION == 300000

\* instants to which the clock moves while no timer is pending and a call of
\* fetchNearbyStations, which will read the clock, is still to come
Instants == {299999, 300000}

\* the full route list of the API
AllRoutes ==
  <<Route_Red, Route_Orange, Route_Blue, Route_GreenB, Route_GreenC>>

\* the stop list the API serves in this specification
Dataset ==
  << Served(Str_Park, 423554001, -710640000, 0, <<Route_Red>>),
     Served(Str_DTX,  423601000, -710539000, 2, <<Route_Orange, Route_Red>>) >>

\* the body the API answers a request with
ApiBody(url) ==
  CASE url.endpoint = "routes" -> Body(AllRoutes)
    [] url.endpoint = "stops" -> Body(StopsData(apiStops))
    [] OTHER -> Body(StopRoutesData(apiStops, url.stop))

\* what a fetch can come to: 200 with the body, 200 with a body that has no
\* data, 429, another status, or a rejection (network error, body that does
\* not parse)
Outcomes(url) ==
  { [status |-> 200, body |-> ApiBody(url)],
    [status |-> 200, body |-> NoDataBody],
    [status |-> 429, body |-> Undefined],
    [status |-> 500, body |-> Undefined],
    [status |-> 0,   body |-> Undefined] }

IsFault(url, outcome) == outcome # [status |-> 200, body |-> ApiBody(url)]

\* a retry that does not wait
waitTime_None(attempt) == 0

\* a backoff of 1 s, 2 s, 4 s
waitTime_FromOneSecond(attempt) == (2 ^ (attempt - 1)) * 1000

\* Math.pow(2, attempt) * 1000 (mbtaApi.js:33, 55)
waitTime(attempt) == (2 ^ attempt) * 1000

\* a loop that does not count its attempts
NextAttempt_NoIncrement(attempt) == attempt

\* attempt++ of the for loop (mbtaApi.js:26)
NextAttempt(attempt) == attempt + 1

\* makeApiCall up to its first await: the first fetch is issued
BeginCall(url) ==
  [url |-> url, attempt |-> 1, state |-> "fetching", since |-> 0,
   trace |-> <<Event("request", 1, Undefined)>>, result |-> Undefined]

CallDone(r) == call[r].state \in {"returned", "threw"}

\* fetchNearbyStations ends for r: its frame is gone
Leave(r) ==
  /\ pc' = [pc EXCEPT ![r] = "done"]
  /\ call' = [call EXCEPT ![r] = NoCall]
  /\ now' = [now EXCEPT ![r] = 0]
  /\ routesData' = [routesData EXCEPT ![r] = Undefined]

\* the earliest pending timer fires first
TimerDue(r) ==
  /\ timer[r] # NoTimer
  /\ \A q \in Res : timer[q] # NoTimer => timer[r] <= timer[q]

\* the clock when the timer of r fires
FireTime(r) == IF clock < timer[r] THEN timer[r] ELSE clock

InitModule ==
  /\ apiStops = Dataset
  /\ pc = [r \in Res |-> "idle"]
  /\ args = [r \in Res |-> NoArgs]
  /\ stationGroups = [r \in Res |-> <<>>]
  /\ stationsWithDistance = [r \in Res |-> <<>>]
  /\ allStopIds = [r \in Res |-> <<>>]
  /\ cur = [r \in Res |-> 1]
  /\ stopRoutesMap = [r \in Res |-> <<>>]
  /\ ret = [r \in Res |-> Pending]
  /\ clock = 0
  /\ routesCache = Null
  /\ routesCacheTimestamp = 0
  /\ now = [r \in Res |-> 0]
  /\ routesData = [r \in Res |-> Undefined]
  /\ call = [r \in Res |-> NoCall]
  /\ timer = [r \in Res |-> NoTimer]
  /\ faults = 0

\* the service module with no component mounted on it
InitApi ==
  /\ InitModule
  /\ InitMap
  /\ geoSupported = TRUE
  /\ NoCallAlone

\* time passes
Tick ==
  /\ \A r \in Res : timer[r] = NoTimer
  /\ \E r \in Res : pc[r] = "idle"
  /\ \E t \in Instants : t > clock /\ clock' = t
  /\ UNCHANGED <<apiStops, pc, args, ret, routesCache, routesCacheTimestamp,
                 now, routesData, call, timer, faults>>
  /\ UNCHANGED stationVars
  /\ UNCHANGED uiVars
  /\ UNCHANGED callVars

\* the cache test of getRoutesData (mbtaApi.js:125)
CacheValid_NoExpiry(cache, timestamp, t) == IsTruthy(cache)

CacheValid(cache, timestamp, t) ==
  IsTruthy(cache) /\ (t - timestamp) < CACHE_DURATION

\* fetchNearbyStations is called (mbtaApi.js:141-146) and runs getRoutesData
\* to its return or to the fetch of the route list (mbtaApi.js:121-131)
CallFetchNearbyStations(r) ==
  /\ pc[r] = "idle"
  /\ \A q \in 1..(r - 1) : pc[q] # "idle"
  /\ args' = [args EXCEPT ![r] =
                [latitude |-> QueryBoston.latitude,
                 longitude |-> QueryBoston.longitude, radius |-> 12500]]
  /\ now' = [now EXCEPT ![r] = clock]
  /\ IF CacheValid(routesCache, routesCacheTimestamp, clock)
     THEN /\ routesData' = [routesData EXCEPT ![r] = routesCache]
          /\ pc' = [pc EXCEPT ![r] = "haveRoutes"]
          /\ UNCHANGED call
     ELSE /\ call' = [call EXCEPT ![r] = BeginCall(RoutesUrl)]
          /\ pc' = [pc EXCEPT ![r] = "routesCall"]
          /\ UNCHANGED routesData
  /\ UNCHANGED <<apiStops, ret, clock, routesCache, routesCacheTimestamp,
                 timer, faults>>
  /\ UNCHANGED stationVars
  /\ UNCHANGED uiVars
  /\ UNCHANGED callVars

\* a catch block that throws again whatever the attempt
IsFinalAttempt_Always(attempt) == TRUE

\* if (attempt === maxRetries) throw error (mbtaApi.js:50-52)
IsFinalAttempt(attempt) == attempt = maxRetries

\* a fetch comes to outcome and makeApiCall runs to its next await or to its
\* end (mbtaApi.js:30-57): the error thrown for a status that is not ok and
\* a rejection are both caught by the catch block of the attempt
Receive(r, outcome) ==
  LET c == call[r]
      seen == Append(c.trace, Event("response", outcome.status, outcome.body))
  IN IF outcome.status = 200
     THEN /\ call' = [call EXCEPT ![r] =
                        [c EXCEPT !.state = "returned", !.trace = seen,
                                  !.result = outcome.body]]
          /\ UNCHANGED timer
     ELSE IF outcome.status # 429 /\ IsFinalAttempt(c.attempt)
     THEN /\ call' = [call EXCEPT ![r] =
                        [c EXCEPT !.state = "threw", !.trace = seen]]
          /\ UNCHANGED timer
     ELSE /\ call' = [call EXCEPT ![r] =
                        [c EXCEPT !.state = "delay", !.trace = seen,
                                  !.since = clock]]
          /\ timer' = [timer EXCEPT ![r] = clock + waitTime(c.attempt)]

\* the API answers a request of a resolution
Response(r) ==
  /\ call[r].state = "fetching"
  /\ pc[r] # "makeApiCall"
  /\ \E outcome \in Outcomes(call[r].url) :
       /\ IsFault(call[r].url, outcome) => faults < MaxFaults
       /\ faults' = IF IsFault(call[r].url, outcome) THEN faults + 1 ELSE faults
       /\ Receive(r, outcome)
  /\ UNCHANGED <<apiStops, pc, args, ret, clock, routesCache,
                 routesCacheTimestamp, now, routesData>>
  /\ UNCHANGED stationVars
  /\ UNCHANGED uiVars
  /\ UNCHANGED callVars

\* the backoff delay ends: the loop goes to its next attempt and issues the
\* fetch, or ends, and makeApiCall returns undefined (mbtaApi.js:26, 35-36,
\* 57-60)
BackoffDone(r) ==
  /\ call[r].state = "delay"
  /\ TimerDue(r)
  /\ clock' = FireTime(r)
  /\ timer' = [timer EXCEPT ![r] = NoTimer]
  /\ LET c == call[r]
         attempt == NextAttempt(c.attempt)
         waited == Append(c.trace, Event("wait", clock' - c.since, Undefined))
     IN call' = [call EXCEPT ![r] =
                   IF attempt <= maxRetries
                   THEN [c EXCEPT !.attempt = attempt, !.state = "fetching",
                                  !.since = 0,
                                  !.trace = Append(waited,
                                              Event("request", attempt, Undefined))]
                   ELSE [c EXCEPT !.attempt = attempt, !.state = "returned",
                                  !.since = 0, !.trace = waited,
                                  !.result = Undefined]]
  /\ UNCHANGED <<apiStops, pc, args, ret, routesCache, routesCacheTimestamp,
                 now, routesData, faults>>
  /\ UNCHANGED stationVars
  /\ UNCHANGED uiVars
  /\ UNCHANGED callVars

\* an entry stamped with the time at which it is stored
Stored_AtReturn(result, t) == [cache |-> result, timestamp |-> clock]

\* a cache that keeps the entry of the first writer
Stored_FirstWins(result, t) ==
  IF IsTruthy(routesCache)
  THEN [cache |-> routesCache, timestamp |-> routesCacheTimestamp]
  ELSE [cache |-> result, timestamp |-> t]

\* routesCache = routesData; routesCacheTimestamp = now (mbtaApi.js:134-135):
\* the entry is overwritten without a look at what it holds
Stored(result, t) == [cache |-> result, timestamp |-> t]

\* an await that goes on to the next statement although the call threw
AwaitThrows_Never(c) == FALSE

\* await makeApiCall(...) in getRoutesData (mbtaApi.js:131): when the call
\* threw, the await throws and the statements after it are not run
AwaitThrows(c) == c.state = "threw"

\* the route-list call of getRoutesData ends (mbtaApi.js:131-137); a throw
\* leaves getRoutesData and fetchNearbyStations (mbtaApi.js:370-373)
RoutesFetched(r) ==
  /\ pc[r] = "routesCall"
  /\ CallDone(r)
  /\ IF AwaitThrows(call[r])
     THEN /\ ret' = [ret EXCEPT ![r] = Threw]
          /\ Leave(r)
          /\ UNCHANGED <<routesCache, routesCacheTimestamp>>
     ELSE /\ routesCache' = Stored(call[r].result, now[r]).cache
          /\ routesCacheTimestamp' = Stored(call[r].result, now[r]).timestamp
          /\ routesData' = [routesData EXCEPT ![r] = call[r].result]
          /\ pc' = [pc EXCEPT ![r] = "haveRoutes"]
          /\ UNCHANGED <<ret, call, now>>
  /\ UNCHANGED <<apiStops, args, clock, timer, faults>>
  /\ UNCHANGED stationVars
  /\ UNCHANGED uiVars
  /\ UNCHANGED callVars

\* a reader of v.data that never throws
DataReadThrows_Never(v) == FALSE

\* reading v.data throws a TypeError when v is undefined (mbtaApi.js:152,
\* 171, 259)
DataReadThrows(v) == v.kind = "undefined"

\* fetchNearbyStations goes on with the route list (mbtaApi.js:146-169):
\* reading routesData.data throws when routesData is undefined
StopsRequested(r) ==
  /\ pc[r] = "haveRoutes"
  /\ IF DataReadThrows(routesData[r])
     THEN /\ ret' = [ret EXCEPT ![r] = Threw]
          /\ Leave(r)
     ELSE /\ call' = [call EXCEPT ![r] = BeginCall(StopsUrl)]
          /\ pc' = [pc EXCEPT ![r] = "stopsCall"]
          /\ UNCHANGED <<ret, now, routesData>>
  /\ UNCHANGED <<apiStops, args, clock, routesCache, routesCacheTimestamp,
                 timer, faults>>
  /\ UNCHANGED stationVars
  /\ UNCHANGED uiVars
  /\ UNCHANGED callVars

\* a stops call that is taken to have brought stops whatever its end
NoStationData_Never(c) == FALSE

\* the stops call brought no stops (mbtaApi.js:169-173): makeApiCall threw,
\* or it returned undefined and reading data.data throws, or the body has no
\* data and 'No station data received' is thrown
NoStationData(c) ==
  \/ c.state = "threw"
  \/ DataReadThrows(c.result)
  \/ ~c.result.hasData

\* the stops call ends (mbtaApi.js:169-255): the stops are grouped and
\* ranked and the first per-stop request is issued
StopsFetched(r) ==
  /\ pc[r] = "stopsCall"
  /\ CallDone(r)
  /\ IF NoStationData(call[r])
     THEN /\ ret' = [ret EXCEPT ![r] = Threw]
          /\ Leave(r)
          /\ UNCHANGED stationVars
     ELSE /\ RankStops(r)
          /\ IF allStopIds'[r] = <<>>
             THEN /\ FinishWith(r, stationsWithDistance'[r], <<>>)
                  /\ Leave(r)
             ELSE /\ call' = [call EXCEPT ![r] =
                                BeginCall(StopRoutesUrl(allStopIds'[r][1]))]
                  /\ pc' = [pc EXCEPT ![r] = "stopCall"]
                  /\ UNCHANGED <<ret, now, routesData>>
  /\ UNCHANGED <<apiStops, args, clock, routesCache, routesCacheTimestamp,
                 timer, faults>>
  /\ UNCHANGED uiVars
  /\ UNCHANGED callVars

\* the routes recorded for a stop whose call threw, although it failed
StopRoutes_IgnoreFailure(c) == ClassifyRoutes(ApiBody(c.url).data)

\* the routes recorded for a stop when its call has ended
\* (mbtaApi.js:255-280): the catch and the else branch record []
StopRoutes(c) ==
  IF c.state = "returned" /\ c.result.hasData
  THEN ClassifyRoutes(c.result.data)
  ELSE <<>>

\* a loop that never waits between two stops
DelayBefore_Never(ids, i) == FALSE

\* the loop waits before the request for the i-th stop id unless that id is
\* the first of the list: stopId !== allStopIds[0] (mbtaApi.js:251)
DelayBefore(ids, i) == ids[i] # ids[1]

\* a per-stop call ends (mbtaApi.js:246-369): the routes are recorded and the
\* loop waits 500 ms before the next stop, or the stations are built
StopFetched(r) ==
  /\ pc[r] = "stopCall"
  /\ CallDone(r)
  /\ LET stopId == allStopIds[r][cur[r]]
         map == MapSet(stopRoutesMap[r], stopId, StopRoutes(call[r]))
     IN /\ stopRoutesMap' = [stopRoutesMap EXCEPT ![r] = map]
        /\ cur' = [cur EXCEPT ![r] = @ + 1]
        /\ IF cur[r] < Len(allStopIds[r])
           THEN IF DelayBefore(allStopIds[r], cur[r] + 1)
                THEN /\ timer' = [timer EXCEPT ![r] = clock + 500]
                     /\ pc' = [pc EXCEPT ![r] = "stopDelay"]
                     /\ UNCHANGED <<ret, call, now, routesData>>
                ELSE /\ call' = [call EXCEPT ![r] =
                                   BeginCall(StopRoutesUrl(
                                     allStopIds[r][cur[r] + 1]))]
                     /\ UNCHANGED <<ret, pc, timer, now, routesData>>
           ELSE /\ FinishWith(r, stationsWithDistance[r], map)
                /\ Leave(r)
                /\ UNCHANGED timer
  /\ UNCHANGED <<apiStops, args, stationGroups, stationsWithDistance,
                 allStopIds, clock, routesCache, routesCacheTimestamp, faults>>
  /\ UNCHANGED uiVars
  /\ UNCHANGED callVars

\* the 500 ms delay ends and the request for the stop is issued
\* (mbtaApi.js:252-255)
StopDelayDone(r) ==
  /\ pc[r] = "stopDelay"
  /\ TimerDue(r)
  /\ clock' = FireTime(r)
  /\ timer' = [timer EXCEPT ![r] = NoTimer]
  /\ call' = [call EXCEPT ![r] =
                BeginCall(StopRoutesUrl(allStopIds[r][cur[r]]))]
  /\ pc' = [pc EXCEPT ![r] = "stopCall"]
  /\ UNCHANGED <<apiStops, args, ret, routesCache, routesCacheTimestamp, now,
                 routesData, faults>>
  /\ UNCHANGED stationVars
  /\ UNCHANGED uiVars
  /\ UNCHANGED callVars

NextApi ==
  \/ Tick
  \/ \E r \in Res :
       \/ CallFetchNearbyStations(r)
       \/ Response(r)
       \/ BackoffDone(r)
       \/ RoutesFetched(r)
       \/ StopsRequested(r)
       \/ StopsFetched(r)
       \/ StopFetched(r)
       \/ StopDelayDone(r)

SpecApi == InitApi /\ [][NextApi]_vars

(***************************************************************************)
(* The call specification: makeApiCall on its own.  Each of Res callers    *)
(* calls it once on one of the urls, and every fetch comes to any of its   *)
(* outcomes.                                                               *)
(***************************************************************************)
InitCall == InitApi

\* makeApiCall(url) is called
CallMakeApiCall(r) ==
  /\ pc[r] = "idle"
  /\ \E url \in {RoutesUrl, StopsUrl, StopRoutesUrl(1)} :
       call' = [call EXCEPT ![r] = BeginCall(url)]
  /\ pc' = [pc EXCEPT ![r] = "makeApiCall"]
  /\ UNCHANGED <<apiStops, args, ret, clock, routesCache, routesCacheTimestamp,
                 now, routesData, timer, faults>>
  /\ UNCHANGED stationVars
  /\ UNCHANGED uiVars
  /\ UNCHANGED callVars

\* the fetch of a call comes to one of its outcomes
FetchSettles(r) ==
  /\ call[r].state = "fetching"
  /\ pc[r] = "makeApiCall"
  /\ \E outcome \in Outcomes(call[r].url) : Receive(r, outcome)
  /\ UNCHANGED <<apiStops, pc, args, ret, clock, routesCache,
                 routesCacheTimestamp, now, routesData, faults>>
  /\ UNCHANGED stationVars
  /\ UNCHANGED uiVars
  /\ UNCHANGED callVars

NextCall ==
  \E r \in Res : CallMakeApiCall(r) \/ FetchSettles(r) \/ BackoffDone(r)

\* every fetch and every delay completes
FairCall == \A r \in Res : WF_vars(FetchSettles(r)) /\ WF_vars(BackoffDone(r))

SpecCall == InitCall /\ [][NextCall]_vars /\ FairCall

(***************************************************************************)
(* The component specification: Map.js on top of the service.  Every       *)
(* action is one handler, callback or effect of the component, with the    *)
(* state updates it makes committed together.  The effect that a render    *)
(* leaves due runs before any other handler.  A callback works on the      *)
(* state of the render that created it: the closures are part of the       *)
(* state (fetchTimers, goTo).  fetchNearbyStations is taken as a whole: a  *)
(* call is under way (pc[r] = "running") until it returns the station list *)
(* for its arguments or throws, as the API specification shows it does.    *)
(***************************************************************************)
\* clicks of the user in one behaviour
MaxActions == 3

\* fetchStations calls that reach the service in one behaviour
MaxResolves == 3

\* the array objects the component and its pending callbacks hold
LiveRefs ==
  {position.ref, userLocation.ref, goTo.userLocation.ref, goTo.position.ref}
    \cup {fetchTimers[i].ref : i \in 1..Len(fetchTimers)}

\* the identity of a newly created array: one that no live array has
FreshRef == CHOOSE n \in 1..(Cardinality(LiveRefs) + 1) :
              /\ n \notin LiveRefs
              /\ \A m \in 1..(n - 1) : m \in LiveRefs

\* const fallbackPos = [42.3601, -71.0589], a new array each time
\* (Map.js:165, 194, 212); const bostonPosition likewise (Map.js:232)
bostonPosition(ref) == Pos(423601000, -710589000, ref)

\* where the geolocation provider finds the device
GeoPositions == {[latitude |-> 423554001, longitude |-> -710640000]}

\* where the user clicks on the map
ClickPositions == {[latitude |-> 423601000, longitude |-> -710539000]}

\* err.code of a GeolocationPositionError; 0 stands for any other value
ErrorCodes == {1, 2, 3, 0}

\* the message of the mount effect's errorCallback (Map.js:146-160)
errorMessage(code) ==
  CASE code = 1 -> "Unable to get your location. Location access was denied. Please allow location access in your browser settings."
    [] code = 2 -> "Unable to get your location. Location information is unavailable. This might be due to poor GPS signal or network issues."
    [] code = 3 -> "Unable to get your location. Location request timed out. Please try again."
    [] OTHER -> "Unable to get your location. Please enable location services and try again."

\* Map.js:192
TimeoutMessage == "Location request timed out. Using default location (Boston)."

\* Map.js:208
UnsupportedMessage ==
  "Geolocation is not supported by this browser. Using default location (Boston)."

\* a catch block that sets no message
FetchMessage_None == NoError

\* Map.js:230
FetchMessage ==
  "Unable to fetch nearby stations. Showing default location (Boston)."

\* a service that answers for the pin as it stands, not for its arguments
AnswerFor_ForPin(a) ==
  LET groups == StationGroups(StopsData(apiStops))
      ranked == StationsWithDistance(groups, position.latitude,
                                     position.longitude, a.radius)
      ids == AllStopIds(ranked)
      map == [id \in {ids[i] : i \in 1..Len(ids)} |->
                ClassifyRoutes(StopRoutesData(apiStops, id))]
  IN FinalStations(StationsWithRoutes(ranked, map))

\* the station list fetchNearbyStations returns for a query when the API
\* answers every request (mbtaApi.js:141-369)
AnswerFor(a) ==
  LET groups == StationGroups(StopsData(apiStops))
      ranked == StationsWithDistance(groups, a.latitude, a.longitude,
                                     a.radius)
      ids == AllStopIds(ranked)
      map == [id \in {ids[i] : i \in 1..Len(ids)} |->
                ClassifyRoutes(StopRoutesData(apiStops, id))]
  IN FinalStations(StationsWithRoutes(ranked, map))

\* what the component leaves to the service
serviceVars ==
  <<apiStops, stationGroups, stationsWithDistance, allStopIds, cur,
    stopRoutesMap, ret, clock, routesCache, routesCacheTimestamp, now,
    routesData, call, timer, faults>>

\* the state of the two geolocation requests and of the timers
requestVars ==
  <<startup, isLocationSet, geolocationTimeout, goTo, fetchTimers,
    errorTimers>>

\* the resolutions under way
resolutionVars == <<pc, args, issued, seq, applied>>

InitUi ==
  /\ InitModule
  /\ InitMap
  /\ geoSupported \in BOOLEAN
  /\ NoCallAlone

\* the render that follows a handler has another position (another array
\* object) or another showStations than the render before: the effect of
\* Map.js:246-257 is due (its third dependency, fetchStations, changes with
\* position, Map.js:244)
EffectDue(newPosition, newShowStations) ==
  effectPending' = (newPosition # position \/ newShowStations # showStations)

\* a timer that finds loading false
MountLoading_Off == FALSE

\* loading as the closure of the mount effect holds it: the value of the
\* first render (Map.js:102, 189)
MountLoading == TRUE

\* the body of fetchStations up to its await, for a closure over the
\* non-null position p (Map.js:218-224): fetchNearbyStations(position[0],
\* position[1], 1.25) is called; the caller sets loadingStations
CallFetchStations(p) ==
  \E r \in Res :
    /\ pc[r] = "idle"
    /\ \A q \in 1..(r - 1) : pc[q] # "idle"
    /\ issued < MaxResolves
    /\ pc' = [pc EXCEPT ![r] = "running"]
    /\ args' = [args EXCEPT ![r] =
                  [latitude |-> p.latitude, longitude |-> p.longitude,
                   radius |-> 12500]]
    /\ issued' = issued + 1
    /\ seq' = [seq EXCEPT ![r] = issued + 1]
    /\ UNCHANGED applied

\* the mount effect (Map.js:110-216): the position is requested and the
\* 20 s timer set, or without navigator.geolocation the fallback is taken
Mount ==
  /\ startup = "unmounted"
  /\ IF geoSupported
     THEN /\ startup' = "pending"
          /\ geolocationTimeout' = TRUE
          /\ handler' = "mount"
          /\ UNCHANGED <<position, userLocation, loading, error,
                         effectPending>>
     ELSE /\ startup' = "unsupported"
          /\ error' = UnsupportedMessage
          /\ loading' = FALSE
          /\ userLocation' = bostonPosition(FreshRef)
          /\ position' = bostonPosition(FreshRef)
          /\ handler' = "unsupported"
          /\ EffectDue(bostonPosition(FreshRef), showStations)
          /\ UNCHANGED geolocationTimeout
  /\ UNCHANGED <<isUserLocation, stations, loadingStations, showStations,
                 gettingLocation, geoSupported, isLocationSet, goTo,
                 fetchTimers, errorTimers, actions>>
  /\ UNCHANGED resolutionVars
  /\ UNCHANGED serviceVars
  /\ UNCHANGED callVars

\* callbacks that act although the location has been set
PreventMultiple_Never(set) == FALSE

\* if (isLocationSet) return; // Prevent multiple calls (Map.js:119, 136)
PreventMultiple(set) == set

\* successCallback of the mount effect (Map.js:118-133)
SuccessCallback ==
  /\ startup = "pending"
  /\ ~effectPending
  /\ startup' = "settled"
  /\ IF PreventMultiple(isLocationSet)
     THEN /\ handler' = "ignored"
          /\ UNCHANGED <<position, userLocation, loading, isLocationSet,
                         geolocationTimeout, effectPending>>
     ELSE \E p \in GeoPositions :
            /\ isLocationSet' = TRUE
            /\ userLocation' = Pos(p.latitude, p.longitude, FreshRef)
            /\ position' = Pos(p.latitude, p.longitude, FreshRef)
            /\ loading' = FALSE
            /\ geolocationTimeout' = FALSE
            /\ handler' = "successCallback"
            /\ EffectDue(Pos(p.latitude, p.longitude, FreshRef), showStations)
  /\ UNCHANGED <<error, isUserLocation, stations, loadingStations,
                 showStations, gettingLocation, geoSupported, goTo,
                 fetchTimers, errorTimers, actions>>
  /\ UNCHANGED resolutionVars
  /\ UNCHANGED serviceVars
  /\ UNCHANGED callVars

\* errorCallback of the mount effect (Map.js:135-175)
ErrorCallback ==
  /\ startup = "pending"
  /\ ~effectPending
  /\ startup' = "settled"
  /\ IF PreventMultiple(isLocationSet)
     THEN /\ handler' = "ignored"
          /\ UNCHANGED <<position, userLocation, loading, error,
                         isLocationSet, geolocationTimeout,
                         effectPending>>
     ELSE \E code \in ErrorCodes :
            /\ isLocationSet' = TRUE
            /\ error' = errorMessage(code)
            /\ loading' = FALSE
            /\ userLocation' = bostonPosition(FreshRef)
            /\ position' = bostonPosition(FreshRef)
            /\ geolocationTimeout' = FALSE
            /\ handler' = "errorCallback"
            /\ EffectDue(bostonPosition(FreshRef), showStations)
  /\ UNCHANGED <<isUserLocation, stations, loadingStations, showStations,
                 gettingLocation, geoSupported, goTo, fetchTimers,
                 errorTimers, actions>>
  /\ UNCHANGED resolutionVars
  /\ UNCHANGED serviceVars
  /\ UNCHANGED callVars

\* a fallback timer that never acts
TimerActs_Never(set, stillLoading) == FALSE

\* if (!isLocationSet && loading) (Map.js:189)
TimerActs(set, stillLoading) == ~set /\ stillLoading

\* the 20 s timer of the mount effect fires (Map.js:188-198); its closure
\* holds the loading of the first render, which is true
GeolocationTimeout ==
  /\ geolocationTimeout
  /\ ~effectPending
  /\ geolocationTimeout' = FALSE
  /\ IF TimerActs(isLocationSet, MountLoading)
     THEN /\ isLocationSet' = TRUE
          /\ error' = TimeoutMessage
          /\ loading' = FALSE
          /\ userLocation' = bostonPosition(FreshRef)
          /\ position' = bostonPosition(FreshRef)
          /\ handler' = "geolocationTimeout"
          /\ EffectDue(bostonPosition(FreshRef), showStations)
     ELSE /\ handler' = "ignored"
          /\ UNCHANGED <<position, userLocation, loading, error,
                         isLocationSet, effectPending>>
  /\ UNCHANGED <<isUserLocation, stations, loadingStations, showStations,
                 gettingLocation, geoSupported, startup, goTo, fetchTimers,
                 errorTimers, actions>>
  /\ UNCHANGED resolutionVars
  /\ UNCHANGED serviceVars
  /\ UNCHANGED callVars

\* an effect that fetches whether or not station display is enabled
EffectFetches_Always(pin, enabled) == pin # NoPosition

\* if (position && showStations) (Map.js:247)
EffectFetches(pin, enabled) == pin # NoPosition /\ enabled

\* the effect on [position, showStations, fetchStations] (Map.js:246-257)
StationEffect ==
  /\ effectPending
  /\ effectPending' = FALSE
  /\ IF EffectFetches(position, showStations)
     THEN /\ stations' = <<>>
          /\ loadingStations' = TRUE
          /\ fetchTimers' = Append(fetchTimers, position)
     ELSE UNCHANGED <<stations, loadingStations, fetchTimers>>
  /\ handler' = "effect"
  /\ UNCHANGED <<position, userLocation, loading, error, isUserLocation,
                 showStations, gettingLocation, geoSupported, startup,
                 isLocationSet, geolocationTimeout, goTo, errorTimers,
                 actions>>
  /\ UNCHANGED resolutionVars
  /\ UNCHANGED serviceVars
  /\ UNCHANGED callVars

\* the 10 ms timer of the effect fires: fetchStations of the render the
\* effect ran in is called (Map.js:253-255, 218-224)
FetchTimer ==
  /\ fetchTimers # <<>>
  /\ ~effectPending
  /\ fetchTimers' = Tail(fetchTimers)
  /\ loadingStations' = TRUE
  /\ CallFetchStations(Head(fetchTimers))
  /\ handler' = "fetchTimer"
  /\ UNCHANGED <<position, userLocation, loading, error, isUserLocation,
                 stations, showStations, gettingLocation, geoSupported,
                 startup, isLocationSet, geolocationTimeout, goTo,
                 effectPending, errorTimers, actions>>
  /\ UNCHANGED serviceVars
  /\ UNCHANGED callVars

\* the resolution r ends and is no longer under way
EndResolution(r) ==
  /\ pc' = [pc EXCEPT ![r] = "idle"]
  /\ args' = [args EXCEPT ![r] = NoArgs]
  /\ seq' = [seq EXCEPT ![r] = 0]
  /\ applied' = Append(applied, [seq |-> seq[r], args |-> args[r]])
  /\ UNCHANGED issued

\* fetchNearbyStations returns to fetchStations (Map.js:224-227, 241-243)
StationsFetched(r) ==
  /\ pc[r] = "running"
  /\ ~effectPending
  /\ stations' = AnswerFor(args[r])
  /\ error' = NoError
  /\ loadingStations' = FALSE
  /\ EndResolution(r)
  /\ handler' = "fetched"
  /\ UNCHANGED <<position, userLocation, loading, isUserLocation,
                 showStations, gettingLocation, geoSupported, effectPending,
                 actions>>
  /\ UNCHANGED requestVars
  /\ UNCHANGED serviceVars
  /\ UNCHANGED callVars

\* fetchNearbyStations throws to fetchStations (Map.js:228-243)
StationsFailed(r) ==
  /\ pc[r] = "running"
  /\ ~effectPending
  /\ error' = FetchMessage
  /\ position' = bostonPosition(FreshRef)
  /\ userLocation' = bostonPosition(FreshRef)
  /\ stations' = <<>>
  /\ errorTimers' = errorTimers + 1
  /\ loadingStations' = FALSE
  /\ EndResolution(r)
  /\ EffectDue(bostonPosition(FreshRef), showStations)
  /\ handler' = "failed"
  /\ UNCHANGED <<loading, isUserLocation, showStations, gettingLocation,
                 geoSupported, startup, isLocationSet, geolocationTimeout,
                 goTo, fetchTimers, actions>>
  /\ UNCHANGED serviceVars
  /\ UNCHANGED callVars

\* the 3 s timer of the catch block fires (Map.js:238-240)
ErrorTimer ==
  /\ errorTimers > 0
  /\ ~effectPending
  /\ errorTimers' = errorTimers - 1
  /\ error' = NoError
  /\ handler' = "errorTimer"
  /\ UNCHANGED <<position, userLocation, loading, isUserLocation, stations,
                 loadingStations, showStations, gettingLocation, geoSupported,
                 startup, isLocationSet, geolocationTimeout, goTo,
                 effectPending, fetchTimers, actions>>
  /\ UNCHANGED resolutionVars
  /\ UNCHANGED serviceVars
  /\ UNCHANGED callVars

\* the map and its buttons are on the screen and the user may click
\* (Map.js:343-360)
CanClick ==
  /\ ~loading
  /\ ~effectPending
  /\ actions < MaxActions

\* the user clicks on the map (Map.js:259-265)
HandleMapClick ==
  /\ CanClick
  /\ \E p \in ClickPositions :
       /\ position' = Pos(p.latitude, p.longitude, FreshRef)
       /\ EffectDue(Pos(p.latitude, p.longitude, FreshRef), showStations)
  /\ isUserLocation' = FALSE
  /\ error' = NoError
  /\ actions' = actions + 1
  /\ handler' = "handleMapClick"
  /\ UNCHANGED <<userLocation, loading, stations, loadingStations,
                 showStations, gettingLocation, geoSupported>>
  /\ UNCHANGED requestVars
  /\ UNCHANGED resolutionVars
  /\ UNCHANGED serviceVars
  /\ UNCHANGED callVars

\* the user clicks the stations button (Map.js:331-341)
ToggleStations ==
  /\ CanClick
  /\ showStations' = ~showStations
  /\ IF ~showStations /\ position # NoPosition
     THEN /\ stations' = <<>>
          /\ loadingStations' = TRUE
          /\ error' = NoError
          /\ CallFetchStations(position)
     ELSE /\ UNCHANGED <<stations, loadingStations, error>>
          /\ UNCHANGED resolutionVars
  /\ actions' = actions + 1
  /\ EffectDue(position, ~showStations)
  /\ handler' = "toggleStations"
  /\ UNCHANGED <<position, userLocation, loading, isUserLocation,
                 gettingLocation, geoSupported>>
  /\ UNCHANGED requestVars
  /\ UNCHANGED serviceVars
  /\ UNCHANGED callVars

\* a fallback that takes the default coordinate
FallbackPin_Default(stored) == bostonPosition(FreshRef)

\* setPosition(userLocation): the pin goes to the stored user location, the
\* same array object (Map.js:301, 319)
FallbackPin(stored) == stored

\* the fallback of goToMyLocation for the render whose userLocation, position
\* and showStations are given (Map.js:299-308, 318-327)
UseStoredLocation(stored, closurePosition, closureShowStations) ==
  /\ position' = FallbackPin(stored)
  /\ isUserLocation' = TRUE
  /\ gettingLocation' = FALSE
  /\ stations' = <<>>
  /\ loadingStations' = TRUE
  /\ IF closureShowStations /\ closurePosition # NoPosition
     THEN CallFetchStations(closurePosition)
     ELSE UNCHANGED resolutionVars
  /\ EffectDue(FallbackPin(stored), showStations)

\* the user clicks the My Location button (Map.js:267-329)
GoToMyLocation ==
  /\ CanClick
  /\ ~gettingLocation
  /\ userLocation # NoPosition
  /\ actions' = actions + 1
  /\ handler' = "goToMyLocation"
  /\ IF geoSupported
     THEN /\ gettingLocation' = TRUE
          /\ goTo' = [state |-> "pending", userLocation |-> userLocation,
                      position |-> position, showStations |-> showStations]
          /\ UNCHANGED <<position, isUserLocation, stations, loadingStations,
                         effectPending>>
          /\ UNCHANGED resolutionVars
     ELSE /\ UseStoredLocation(userLocation, position, showStations)
          /\ UNCHANGED goTo
  /\ UNCHANGED <<userLocation, loading, error, showStations, geoSupported,
                 startup, isLocationSet, geolocationTimeout, fetchTimers,
                 errorTimers>>
  /\ UNCHANGED serviceVars
  /\ UNCHANGED callVars

\* the success callback of goToMyLocation (Map.js:277-291)
GoToSuccess ==
  /\ goTo.state = "pending"
  /\ ~effectPending
  /\ \E p \in GeoPositions :
       /\ userLocation' = Pos(p.latitude, p.longitude, FreshRef)
       /\ position' = Pos(p.latitude, p.longitude, FreshRef)
       /\ EffectDue(Pos(p.latitude, p.longitude, FreshRef), showStations)
  /\ isUserLocation' = TRUE
  /\ gettingLocation' = FALSE
  /\ stations' = <<>>
  /\ loadingStations' = TRUE
  /\ IF goTo.showStations /\ goTo.position # NoPosition
     THEN CallFetchStations(goTo.position)
     ELSE UNCHANGED resolutionVars
  /\ goTo' = NoGoTo
  /\ handler' = "goToSuccess"
  /\ UNCHANGED <<loading, error, showStations, geoSupported, startup,
                 isLocationSet, geolocationTimeout, fetchTimers, errorTimers,
                 actions>>
  /\ UNCHANGED serviceVars
  /\ UNCHANGED callVars

\* the error callback of goToMyLocation (Map.js:292-309)
GoToError ==
  /\ goTo.state = "pending"
  /\ ~effectPending
  /\ UseStoredLocation(goTo.userLocation, goTo.position, goTo.showStations)
  /\ goTo' = NoGoTo
  /\ handler' = "goToError"
  /\ UNCHANGED <<userLocation, loading, error, showStations, geoSupported,
                 startup, isLocationSet, geolocationTimeout, fetchTimers,
                 errorTimers, actions>>
  /\ UNCHANGED serviceVars
  /\ UNCHANGED callVars

NextUi ==
  \/ Mount
  \/ SuccessCallback
  \/ ErrorCallback
  \/ GeolocationTimeout
  \/ StationEffect
  \/ FetchTimer
  \/ ErrorTimer
  \/ HandleMapClick
  \/ ToggleStations
  \/ GoToMyLocation
  \/ GoToSuccess
  \/ GoToError
  \/ \E r \in Res : StationsFetched(r) \/ StationsFailed(r)

SpecUi == InitUi /\ [][NextUi]_vars

\* React runs the effects of a render once it is committed, and a timer
\* that has been set and not cleared fires; the geolocation provider and the
\* user owe nothing
FairUi ==
  /\ WF_vars(Mount)
  /\ WF_vars(StationEffect)
  /\ WF_vars(GeolocationTimeout)

SpecUiLive == InitUi /\ [][NextUi]_vars /\ FairUi

(***************************************************************************)
(* The classification specification: getLineInfo called on its own on one  *)
(* raw route, and the station list the module builds for a stop that the   *)
(* route calls at.                                                         *)
(***************************************************************************)
\* the branch letters of the Green Line
Branches == {"B", "C", "D", "E"}

\* "Green Line X"
GreenLine(x) == Str_Green \o <<" ","L","i","n","e"," ">> \o <<x>>

\* "Green Line X Branch"
GreenLineBranch(x) == GreenLine(x) \o <<" ","B","r","a","n","c","h">>

\* route ids of the API and ids that name no line; <<>> is a missing id
LineIds ==
  { <<>>, Str_Red, Str_Orange, Str_Blue, Str_Green, Str_Mattapan, <<"1">> }
    \cup { Str_Green \o <<"-", x>> : x \in Branches }

\* attributes.long_name; <<>> is a missing or empty name
LongNames ==
  { <<>>,
    <<"R","e","d"," ","L","i","n","e">>,
    <<"O","r","a","n","g","e"," ","L","i","n","e">>,
    <<"B","l","u","e"," ","L","i","n","e">>,
    <<"G","r","e","e","n"," ","L","i","n","e">>,
    <<"M","a","t","t","a","p","a","n"," ","T","r","o","l","l","e","y">>,
    <<"S","i","l","v","e","r"," ","L","i","n","e">> }
    \cup { GreenLine(x) : x \in Branches }
    \cup { GreenLineBranch(x) : x \in Branches }

\* attributes.short_name
ShortNames == { <<>>, <<"B">>, <<"1">>, Str_Mattapan }

\* the raw routes getLineInfo is called on
LineInputs ==
  { RawRoute(id, hasAttrs, long_name, short_name) :
      id \in LineIds, hasAttrs \in BOOLEAN, long_name \in LongNames,
      short_name \in ShortNames }

InitLine ==
  /\ InitModule
  /\ InitMap
  /\ geoSupported = TRUE
  /\ input \in { [fn |-> "getLineInfo", arg |-> route] : route \in LineInputs }
  /\ output = NoOutput

\* what every call of a synchronous function on its own leaves alone
moduleVars ==
  <<apiStops, pc, args, stationGroups, stationsWithDistance, allStopIds, cur,
    stopRoutesMap, ret, clock, routesCache, routesCacheTimestamp, now,
    routesData, call, timer, faults>>

\* getLineInfo(route) returns (mbtaApi.js:77-118)
CallGetLineInfo ==
  /\ input.fn = "getLineInfo"
  /\ output.fn = "none"
  /\ output' = [fn |-> "getLineInfo", value |-> getLineInfo(input.arg)]
  /\ UNCHANGED <<input, moduleVars, uiVars>>

\* the station list built for one stop at which the route and the Red Line
\* call (mbtaApi.js:259-272, 286-369)
BuildServed ==
  /\ input.fn = "getLineInfo"
  /\ output.fn = "getLineInfo"
  /\ LET served == <<Served(Str_Park, 423554001, -710640000, 1,
                            <<input.arg, Route_Red>>)>>
         ranked == StationsWithDistance(StationGroups(StopsData(served)),
                                        QueryBoston.latitude,
                                        QueryBoston.longitude, 12500)
         map == [id \in {1} |-> ClassifyRoutes(StopRoutesData(served, id))]
     IN output' = [fn |-> "stations",
                   value |-> FinalStations(StationsWithRoutes(ranked, map))]
  /\ UNCHANGED <<input, moduleVars, uiVars>>

NextLine == CallGetLineInfo \/ BuildServed

SpecLine == InitLine /\ [][NextLine]_vars

(***************************************************************************)
(* calculateDistance called on its own, on pairs of points of Boston       *)
(***************************************************************************)
\* latitudes and longitudes (1e-7 degree) of the points; any two of them
\* are less than 3 miles apart, the range of the fixed-point functions
PointLatitudes == {423450000, 423554001, 423601000, 423750000}

PointLongitudes == {-710900000, -710640000, -710539000, -710500000}

Points ==
  { [latitude |-> lat, longitude |-> lon] :
      lat \in PointLatitudes, lon \in PointLongitudes }

InitDistance ==
  /\ InitModule
  /\ InitMap
  /\ geoSupported = TRUE
  /\ input \in { [fn |-> "calculateDistance", arg |-> <<a, b>>] :
                   a \in Points, b \in Points }
  /\ output = NoOutput

\* calculateDistance returns for the pair in both orders, and for the first
\* point with itself (mbtaApi.js:63-74)
CallCalculateDistance ==
  /\ input.fn = "calculateDistance"
  /\ output.fn = "none"
  /\ LET a == input.arg[1]
         b == input.arg[2]
     IN output' =
          [fn |-> "calculateDistance",
           value |->
             [ab |-> calculateDistance(a.latitude, a.longitude,
                                       b.latitude, b.longitude),
              ba |-> calculateDistance(b.latitude, b.longitude,
                                       a.latitude, a.longitude),
              aa |-> calculateDistance(a.latitude, a.longitude,
                                       a.latitude, a.longitude)]]
  /\ UNCHANGED <<input, moduleVars, uiVars>>

NextDistance == CallCalculateDistance

SpecDistance == InitDistance /\ [][NextDistance]_vars

(***************************************************************************)
(* Properties                                                              *)
(***************************************************************************)
\* resolution r has grouped and ranked the stops of the response
Grouped(r) ==
  \/ pc[r] \in {"routes", "stopCall", "stopDelay"}
  \/ pc[r] = "done" /\ ret[r].status = "returned"

\* the stations resolution r returned
HasReturned(r) == ret[r].status = "returned"

RouteIds(routes) == {routes[i].id : i \in 1..Len(routes)}

\* the normalised name of the i-th ranked group of resolution r
RankedName(r, i) == NormName(stationsWithDistance[r][i].stationGroup.name)

\* the ranked groups of resolution r that bear the name of ranked group f
SameNamed(r, f) ==
  {i \in 1..Len(stationsWithDistance[r]) : RankedName(r, i) = RankedName(r, f)}

\* the ranked groups that are the first of their name
FirstOfName(r) ==
  {i \in 1..Len(stationsWithDistance[r]) :
     \A j \in 1..(i - 1) : RankedName(r, j) # RankedName(r, i)}

\* the k-th smallest member of a set of numbers
Kth(S, k) == CHOOSE f \in S : Cardinality({g \in S : g < f}) = k - 1

\* the ids of the routes recorded for the stops of ranked group i
GroupRouteIds(r, i) ==
  LET stops == stationsWithDistance[r][i].stationGroup.stops
  IN UNION {RouteIds(stopRoutesMap[r][stops[n].id]) :
              n \in {n \in 1..Len(stops) : stops[n].id \in DOMAIN stopRoutesMap[r]}}

\* C1: every Station returned by fetchNearbyStations has distance <= radius,
\* the returned list has at most 3 entries, and it is in ascending order of
\* distance, the name-merge step included.
C1_WithinRadiusAtMost3Sorted ==
  \A r \in Res :
    HasReturned(r) =>
      LET s == ret[r].value
      IN /\ Len(s) <= 3
         /\ \A i \in 1..Len(s) : s[i].distance <= args[r].radius
         /\ \A i, j \in 1..Len(s) : i < j => s[i].distance <= s[j].distance

\* a returned list of two stations at different distances, made of three
\* ranked groups by a merge, with a fourth group outside the radius
C1_Witness ==
  /\ HasReturned(1)
  /\ Len(ret[1].value) = 2
  /\ ret[1].value[1].distance < ret[1].value[2].distance
  /\ Len(stationsWithDistance[1]) = 3
  /\ \E i \in 1..Len(stationGroups[1]) :
       calculateDistance(args[1].latitude, args[1].longitude,
                         stationGroups[1][i].latitude,
                         stationGroups[1][i].longitude) > args[1].radius

\* C2: a returned Station has wheelchair_accessible = true if ANY of the raw
\* stops grouped into it reports wheelchair_boarding = 1, whatever the order
\* of the stops in the response.
C2_AccessibleIfAnyStop ==
  \A r \in Res :
    HasReturned(r) =>
      \A k \in 1..Len(ret[r].value) :
        LET f == Kth(FirstOfName(r), k)
            anyStop ==
              \E i \in SameNamed(r, f) :
                LET stops == stationsWithDistance[r][i].stationGroup.stops
                IN \E n \in 1..Len(stops) : stops[n].wheelchair_boarding = 1
        IN anyStop => ret[r].value[k].wheelchair_accessible

\* C3: whenever at least three stations with different names
\* (case-insensitive, trimmed) lie within the radius, the result has exactly
\* three entries, and no station within the radius that is omitted is
\* strictly closer than a returned one.
C3_ThreeNearestStations ==
  \A r \in Res :
    HasReturned(r) =>
      LET groups == stationGroups[r]
          Dist(i) == calculateDistance(args[r].latitude, args[r].longitude,
                                       groups[i].latitude, groups[i].longitude)
          near == {i \in 1..Len(groups) : Dist(i) <= args[r].radius}
          s == ret[r].value
          shown == {NormName(s[k].name) : k \in 1..Len(s)}
      IN /\ Cardinality({NormName(groups[i].name) : i \in near}) >= 3
              => Len(s) = 3
         /\ \A i \in near :
              NormName(groups[i].name) \notin shown
                => \A k \in 1..Len(s) : ~(Dist(i) < s[k].distance)

\* C4: top-3 groups whose names are equal case-insensitively after trimming
\* are merged into one Station placed at the first occurrence, whose routes
\* are the union of the groups' routes, whose distance is the minimum of
\* their distances and whose wheelchair_accessible is the OR of theirs.
C4_MergedStation ==
  \A r \in Res :
    HasReturned(r) =>
      LET ranked == stationsWithDistance[r]
          s == ret[r].value
      IN /\ Len(s) = Cardinality(FirstOfName(r))
         /\ \A k \in 1..Len(s) :
              LET f == Kth(FirstOfName(r), k)
                  members == SameNamed(r, f)
              IN /\ s[k].name = ranked[f].stationGroup.name
                 /\ s[k].id = ranked[f].stationGroup.stops[1].id
                 /\ RouteIds(s[k].routes)
                      = UNION {GroupRouteIds(r, i) : i \in members}
                 /\ Len(s[k].routes) = Cardinality(RouteIds(s[k].routes))
                 /\ \E i \in members : s[k].distance = ranked[i].distance
                 /\ \A i \in members : s[k].distance <= ranked[i].distance
                 /\ s[k].wheelchair_accessible
                      = (\E i \in members :
                           ranked[i].stationGroup.wheelchair_accessible)

\* two ranked groups of one name were merged; each had a route the other
\* lacked, they lay at different distances and only one was accessible
C4_Witness ==
  /\ HasReturned(1)
  /\ \E i, j \in 1..Len(stationsWithDistance[1]) :
       /\ i < j
       /\ RankedName(1, i) = RankedName(1, j)
       /\ GroupRouteIds(1, i) \ GroupRouteIds(1, j) # {}
       /\ GroupRouteIds(1, j) \ GroupRouteIds(1, i) # {}
       /\ stationsWithDistance[1][i].distance
            # stationsWithDistance[1][j].distance
       /\ stationsWithDistance[1][i].stationGroup.wheelchair_accessible
            # stationsWithDistance[1][j].stationGroup.wheelchair_accessible

\* a number in E7 rounded to 6 decimals
Round6(x) == Sgn(x) * ((Abs(x) + 5) \div 10)

\* stops i and j of the response are held by one group of resolution r
SameGroup(r, i, j) ==
  \E g \in 1..Len(stationGroups[r]) :
    LET ids == {stationGroups[r][g].stops[n].id :
                  n \in 1..Len(stationGroups[r][g].stops)}
    IN i \in ids /\ j \in ids

\* C5: two raw stops fall into the same StationGroup exactly when their name
\* and their latitude and longitude rounded to 6 decimals are all equal:
\* stops with an identical key collapse into exactly one group that holds
\* every such stop, stops whose key differs stay in separate groups.
C5_GroupedIffSameRoundedKey ==
  \A r \in Res :
    Grouped(r) =>
      LET data == StopsData(apiStops)
          located == {i \in 1..Len(data) :
                        data[i].latitude # NullCoord
                        /\ data[i].longitude # NullCoord}
      IN /\ \A i, j \in located :
              SameGroup(r, i, j)
                <=> /\ data[i].name = data[j].name
                    /\ Round6(data[i].latitude) = Round6(data[j].latitude)
                    /\ Round6(data[i].longitude) = Round6(data[j].longitude)
         /\ \A i \in located :
              Cardinality({g \in 1..Len(stationGroups[r]) :
                             \E n \in 1..Len(stationGroups[r][g].stops) :
                               stationGroups[r][g].stops[n].id = i}) = 1

IsRequest(e) == e.ev = "request"
IsResponse(e) == e.ev = "response"

\* the requests a call has issued and the responses it has received
RequestsOf(c) == SelectSeq(c.trace, IsRequest)
ResponsesOf(c) == SelectSeq(c.trace, IsResponse)

\* C6: a makeApiCall whose first attempt receives 429 and whose second
\* attempt receives 200 returns the parsed body of the second response, and
\* between the first response and the second request a wait of at least
\* 2 seconds (2^1 * 1000 ms) has ended.
C6_RetryAfter429 ==
  \A r \in Res :
    LET c == call[r]
        tr == c.trace
        resp == ResponsesOf(c)
    IN (CallDone(r) /\ Len(resp) = 2 /\ resp[1].info = 429 /\ resp[2].info = 200)
         => /\ c.state = "returned"
            /\ c.result = resp[2].body
            /\ Len(RequestsOf(c)) = 2
            /\ \E i, j, k \in 1..Len(tr) :
                 /\ i < j /\ j < k
                 /\ tr[i].ev = "response" /\ tr[i].info = 429
                 /\ tr[j].ev = "wait" /\ tr[j].info >= 2000
                 /\ tr[k].ev = "request" /\ tr[k].info = 2

\* a call that met 429, then 200 with the body of its url, and returned
C6_Witness ==
  LET resp == ResponsesOf(call[1])
  IN /\ call[1].state = "returned"
     /\ Len(resp) = 2
     /\ resp[1].info = 429
     /\ resp[2].info = 200
     /\ call[1].result = ApiBody(call[1].url)
     /\ call[1].result.hasData

\* C7: when every attempt of a makeApiCall receives 429, the call ends by
\* throwing once the attempts are used up; it does not complete normally with
\* a value.
C7_All429Throws ==
  \A r \in Res :
    LET resp == ResponsesOf(call[r])
    IN (CallDone(r) /\ Len(resp) = maxRetries
        /\ \A i \in 1..Len(resp) : resp[i].info = 429)
         => call[r].state = "threw"

\* C8: a makeApiCall issues at most maxRetries requests, whatever its
\* fetches come to, every response having been preceded by its own request,
\* and a call that has begun completes, by returning or throwing, when every
\* fetch and every delay completes.
C8_BoundedRequestsAndCompletion ==
  /\ [](\A r \in Res :
          /\ Len(RequestsOf(call[r])) <= 2
          /\ Len(ResponsesOf(call[r])) <= Len(RequestsOf(call[r]))
          /\ call[r].state = "fetching"
               => Len(ResponsesOf(call[r])) < Len(RequestsOf(call[r])))
  /\ \A r \in Res : (call[r].state \in {"fetching", "delay"}) ~> CallDone(r)

\* a call that met 429 and then a network error, and threw after two requests
C8_Witness ==
  LET resp == ResponsesOf(call[1])
  IN /\ call[1].state = "threw"
     /\ Len(RequestsOf(call[1])) = 2
     /\ Len(resp) = 2
     /\ resp[1].info = 429
     /\ resp[2].info = 0

\* C9: getRoutesData issues the route-list request if and only if
\* routesCache holds no object or the clock is at least 300000 ms past
\* routesCacheTimestamp; with a younger entry it returns the entry and issues
\* no request; and when its request has returned, the value is stored in
\* routesCache and returned.
C9_FetchIffNoFreshEntry ==
  [][\A r \in Res :
       /\ (pc[r] = "idle" /\ pc'[r] # "idle")
            => LET fresh == /\ routesCache.kind = "object"
                            /\ clock - routesCacheTimestamp < 300000
               IN /\ ~fresh <=> /\ call'[r].url = RoutesUrl
                                /\ call'[r].state = "fetching"
                                /\ Len(RequestsOf(call'[r])) = 1
                  /\ fresh => /\ call'[r] = call[r]
                              /\ routesData'[r] = routesCache
                              /\ pc'[r] = "haveRoutes"
       /\ (pc[r] = "routesCall" /\ pc'[r] = "haveRoutes")
            => /\ call[r].state = "returned"
               /\ routesCache' = call[r].result
               /\ routesData'[r] = call[r].result]_vars

\* the second resolution got the route list from an entry 299999 ms old
\* without a request
C9_Witness ==
  /\ pc[2] = "haveRoutes"
  /\ call[2].state = "none"
  /\ routesCache.kind = "object"
  /\ routesData[2] = routesCache
  /\ now[2] - routesCacheTimestamp = 299999

\* the per-stop call of r has ended in failure: it threw, returned undefined
\* after 429 on every attempt, or returned a body without data
StopCallFailed(r) == call[r].state = "threw" \/ ~call[r].result.hasData

\* C10: a failed per-stop route request never makes fetchNearbyStations fail:
\* the stop is recorded with an empty route list, what was recorded for the
\* other stops is kept, and once the per-stop requests have begun the call
\* can only end by returning the station list built from what was recorded.
C10_StopFailureContained ==
  /\ [](\A r \in Res :
          /\ pc[r] \in {"stopCall", "stopDelay"} => ret[r].status = "pending"
          /\ (pc[r] = "done" /\ allStopIds[r] # <<>>)
               => /\ ret[r].status = "returned"
                  /\ ret[r].value =
                       FinalStations(StationsWithRoutes(stationsWithDistance[r],
                                                        stopRoutesMap[r]))
                  /\ \A n \in 1..Len(allStopIds[r]) :
                       LET stopId == allStopIds[r][n]
                       IN /\ stopId \in DOMAIN stopRoutesMap[r]
                          /\ stopRoutesMap[r][stopId] \in
                               {<<>>, ClassifyRoutes(
                                        StopRoutesData(apiStops, stopId))})
  /\ [][\A r \in Res :
          (pc[r] = "stopCall" /\ CallDone(r) /\ cur'[r] # cur[r])
            => LET stopId == allStopIds[r][cur[r]]
               IN /\ ret'[r].status # "threw"
                  /\ StopCallFailed(r) => stopRoutesMap'[r][stopId] = <<>>
                  /\ ~StopCallFailed(r)
                       => stopRoutesMap'[r][stopId] =
                            ClassifyRoutes(StopRoutesData(apiStops, stopId))
                  /\ \A other \in DOMAIN stopRoutesMap[r] \ {stopId} :
                       stopRoutesMap'[r][other] = stopRoutesMap[r][other]]_vars

\* the first resolution returned its stations after two failed requests; the
\* routes of its first stop are recorded, its second stop has none
C10_Witness ==
  /\ pc[1] = "done"
  /\ pc[2] = "idle"
  /\ ret[1].status = "returned"
  /\ Len(ret[1].value) = 2
  /\ faults = 2
  /\ Len(allStopIds[1]) = 2
  /\ stopRoutesMap[1][allStopIds[1][1]] # <<>>
  /\ stopRoutesMap[1][allStopIds[1][2]] = <<>>

\* the call of r has used up its attempts without a 200: its last response
\* came at attempt maxRetries and was a 429, another status or a rejection
CallExhausted(r) ==
  LET resp == ResponsesOf(call[r])
  IN /\ CallDone(r)
     /\ Len(resp) = 2
     /\ resp[2].info # 200

\* C11: when the route-list request or the stops request of a resolution
\* has failed with its attempts used up, the resolution goes on to nothing
\* but its failure: no stops request follows a failed route-list request, no
\* per-stop request follows a failed stops request, the call throws to its
\* caller and returns no station list.
C11_FetchFailurePropagates ==
  /\ [][\A r \in Res :
          /\ (pc[r] = "routesCall" /\ CallExhausted(r) /\ pc'[r] # pc[r])
               => \/ pc'[r] = "done" /\ ret'[r] = Threw
                  \/ /\ pc'[r] = "haveRoutes"
                     /\ routesData'[r] = Undefined
                     /\ ret'[r] = Pending
          /\ (pc[r] = "haveRoutes" /\ routesData[r] = Undefined
              /\ pc'[r] # pc[r])
               => pc'[r] = "done" /\ ret'[r] = Threw
          /\ (pc[r] = "stopsCall" /\ CallExhausted(r) /\ pc'[r] # pc[r])
               => pc'[r] = "done" /\ ret'[r] = Threw]_vars
  /\ [](\A r \in Res : ret[r].status = "threw" => ret[r].value = <<>>)

\* the first resolution threw after its route-list request met 429 on both
\* attempts
C11_Witness ==
  /\ pc[1] = "done"
  /\ ret[1] = Threw
  /\ routesCache = Undefined
  /\ faults = 2
  /\ pc[2] = "idle"

\* the stop ids of the ranked groups of r, in request order
StopIdsOf(r) == CollectStopIds(stationsWithDistance[r])

\* C17: within one resolution the per-stop requests run one after the
\* other, one call per constituent stop of the ranked (at most 3) groups in
\* list order: while the call for the k-th stop runs, exactly the k-1 stops
\* before it have been recorded; when it ends and a stop remains, no request
\* is issued and a 500 ms timer is set; the next request is issued by the
\* step that fires this timer, 500 ms or more after the previous call ended;
\* after the last stop the resolution returns.
C17_SequentialStopRequests ==
  /\ [](\A r \in Res :
          /\ pc[r] \in {"stopCall", "stopDelay"}
               => /\ allStopIds[r] = StopIdsOf(r)
                  /\ cur[r] \in 1..Len(allStopIds[r])
                  /\ DOMAIN stopRoutesMap[r] =
                       {allStopIds[r][k] : k \in 1..(cur[r] - 1)}
          /\ pc[r] = "stopCall"
               => /\ call[r].url = StopRoutesUrl(allStopIds[r][cur[r]])
                  /\ timer[r] = NoTimer \/ call[r].state = "delay"
          /\ pc[r] = "stopDelay"
               => /\ cur[r] > 1
                  /\ call[r].state \in {"returned", "threw"}
                  /\ timer[r] # NoTimer)
  /\ [][\A r \in Res :
          /\ (pc[r] = "stopCall" /\ CallDone(r) /\ call'[r] # call[r])
               => /\ cur[r] = Len(allStopIds[r])
                  /\ pc'[r] = "done"
                  /\ ret'[r].status = "returned"
          /\ (pc[r] = "stopCall" /\ CallDone(r) /\ cur'[r] # cur[r]
              /\ cur[r] < Len(allStopIds[r]))
               => /\ pc'[r] = "stopDelay"
                  /\ cur'[r] = cur[r] + 1
                  /\ call'[r] = call[r]
                  /\ timer'[r] = clock + 500
          /\ (pc[r] = "stopDelay" /\ pc'[r] # pc[r])
               => /\ pc'[r] = "stopCall"
                  /\ clock' >= timer[r]
                  /\ cur'[r] = cur[r]
                  /\ call'[r] = BeginCall(StopRoutesUrl(allStopIds[r][cur[r]]))
          /\ (pc[r] = "stopsCall" /\ pc'[r] = "stopCall")
               => cur'[r] = 1]_vars

\* the first resolution has issued the request for its second stop, 500 ms
\* after the call for the first stop ended
C17_Witness ==
  /\ pc[1] = "stopCall"
  /\ cur[1] = 2
  /\ Len(allStopIds[1]) = 2
  /\ call[1].state = "fetching"
  /\ call[1].attempt = 1
  /\ clock >= 500

\* C19: a resolution that read the cache as missing or expired issues the
\* route-list request whatever the other resolution is doing, so two such
\* resolutions both request; and each of them, when its request returns,
\* overwrites the cache with its own result and the timestamp it read before
\* requesting. Nothing else writes the cache, so after both have returned the
\* cache holds what the later writer wrote.
C19_LastWriterWins ==
  /\ [](\A r \in Res :
          pc[r] = "routesCall"
            => /\ call[r].url = RoutesUrl
               /\ RequestsOf(call[r]) # <<>>)
  /\ [][\A r \in Res :
          /\ (pc[r] = "idle" /\ pc'[r] # "idle"
              /\ ~(IsTruthy(routesCache)
                   /\ clock - routesCacheTimestamp < CACHE_DURATION))
               => /\ pc'[r] = "routesCall"
                  /\ call'[r] = BeginCall(RoutesUrl)
                  /\ now'[r] = clock
          /\ (pc[r] = "routesCall" /\ pc'[r] = "haveRoutes")
               => /\ routesCache' = call[r].result
                  /\ routesCacheTimestamp' = now[r]
                  /\ routesData'[r] = call[r].result]_vars
  /\ [][<<routesCache, routesCacheTimestamp>>'
          # <<routesCache, routesCacheTimestamp>>
        => \E r \in Res : pc[r] = "routesCall" /\ pc'[r] = "haveRoutes"]_vars

\* both resolutions requested the route list; the second, begun later, wrote
\* first and the first wrote last: the cache holds the first one's result
\* with the first one's older timestamp
C19_Witness ==
  /\ pc[1] = "haveRoutes"
  /\ pc[2] = "haveRoutes"
  /\ now[1] = 0
  /\ now[2] = 299999
  /\ routesData[1] # routesData[2]
  /\ routesCache = routesData[1]
  /\ routesCacheTimestamp = now[1]

\* C20: every Station of a list returned by fetchNearbyStations has
\* hasRouteData = TRUE, a Station whose per-stop requests all failed and
\* whose routes are empty included.
C20_HasRouteDataAlways ==
  \A r \in Res :
    ret[r].status = "returned"
      => \A i \in 1..Len(ret[r].value) : ret[r].value[i].hasRouteData

\* the first resolution returned a Station with no routes, whose only stop
\* was recorded with [] after its request failed on both attempts
C20_Witness ==
  /\ ret[1].status = "returned"
  /\ faults = 2
  /\ \E i \in 1..Len(ret[1].value) :
       /\ ret[1].value[i].routes = <<>>
       /\ ret[1].value[i].hasRouteData
       /\ stopRoutesMap[1][ret[1].value[i].id] = <<>>
       /\ ClassifyRoutes(StopRoutesData(apiStops, ret[1].value[i].id)) # <<>>

\* the array p holds the default coordinate (42.3601, -71.0589)
AtDefault(p) == p.latitude = 423601000 /\ p.longitude = -710589000

\* the arguments of a resolution for the pin p
QueryFor(p) ==
  [latitude |-> p.latitude, longitude |-> p.longitude, radius |-> 12500]

\* the render shows the map, not the loading view nor the error view
\* (Map.js:343-375)
MapShown == ~loading /\ ~(error # NoError /\ position = NoPosition)

C13_StartupFailureFallsBack ==
  /\ [](handler \in {"errorCallback", "geolocationTimeout", "unsupported"}
          => /\ AtDefault(position)
             /\ AtDefault(userLocation)
             /\ error # NoError
             /\ ~loading
             /\ MapShown)
  /\ [][(geolocationTimeout /\ ~geolocationTimeout' /\ startup' = startup
         /\ ~isLocationSet)
          => /\ handler' = "geolocationTimeout"
             /\ error' = TimeoutMessage
             /\ isLocationSet']_vars
  /\ [][(startup = "unmounted" /\ startup' # startup /\ ~geoSupported)
          => /\ handler' = "unsupported"
             /\ error' = UnsupportedMessage]_vars
  /\ [](~loading => position # NoPosition /\ userLocation # NoPosition)

\* the provider never answered and the 20 s timer put the fallback in place
C13_Witness ==
  /\ handler = "geolocationTimeout"
  /\ startup = "pending"
  /\ AtDefault(position)
  /\ position = userLocation
  /\ error = TimeoutMessage
  /\ ~loading

\* C14 as stated: every geolocation error, one raised by the return to my
\* location included, ends with the pin at the default coordinate and an
\* error message.
C14_EveryErrorToDefault ==
  handler \in {"errorCallback", "goToError"}
    => AtDefault(position) /\ error # NoError

\* C14: a geolocation error at startup ends with the pin at the default
\* coordinate and a message that names the cause; a geolocation error of the
\* return to my location puts the pin on the stored user location, the array
\* the component held when the button was clicked, and sets no message.
C14_ErrorFallbacks ==
  /\ [](handler = "errorCallback"
          => /\ AtDefault(position)
             /\ \E code \in ErrorCodes : error = errorMessage(code))
  /\ [][(goTo.state = "pending" /\ handler' = "goToError")
          => /\ position' = goTo.userLocation
             /\ error' = error
             /\ isUserLocation'
             /\ ~gettingLocation']_vars

\* after a located startup and a click elsewhere, the return to my location
\* failed: the pin is back on the user's location, away from the default
\* coordinate, and no message is set
C14_Witness ==
  /\ handler = "goToError"
  /\ actions = 2
  /\ ~AtDefault(position)
  /\ position = userLocation
  /\ error = NoError

\* C15 as stated: once the initial pin is established and nothing of the
\* startup is left to run, a resolution has been issued without any click.
C15_ResolveOnInitialLoad ==
  (/\ position # NoPosition
   /\ ~effectPending
   /\ fetchTimers = <<>>
   /\ actions = 0)
    => issued > 0

\* C15: on initial load no resolution is issued: station display starts
\* disabled and the effect that follows the first pin does nothing; the
\* first resolution is issued, for the pin, by the click that enables
\* station display.
C15_NoResolveBeforeClick ==
  /\ [](actions = 0
          => /\ issued = 0
             /\ fetchTimers = <<>>
             /\ ~showStations
             /\ \A r \in Res : pc[r] = "idle")
  /\ [][(handler' = "toggleStations" /\ actions' # actions /\ issued = 0
         /\ ~showStations)
          => \E r \in Res :
               /\ pc[r] = "idle"
               /\ pc'[r] = "running"
               /\ args'[r] = QueryFor(position)]_vars

\* the initial pin is established by geolocation, the effect has run after
\* it, and no resolution is issued or scheduled
C15_Witness ==
  /\ handler = "effect"
  /\ startup = "settled"
  /\ position # NoPosition
  /\ ~AtDefault(position)
  /\ ~loading
  /\ actions = 0
  /\ issued = 0
  /\ fetchTimers = <<>>

\* C16: a click on the map moves the pin and issues nothing by itself; the
\* effect that follows schedules fetchStations for the new pin when station
\* display is enabled and schedules nothing when it is disabled; the
\* scheduled call, when its timer fires, issues the resolution for that pin.
C16_ClickResolvesIffShown ==
  /\ [][(handler' = "handleMapClick" /\ actions' # actions)
          => /\ effectPending'
             /\ position' # position
             /\ showStations' = showStations
             /\ fetchTimers' = fetchTimers
             /\ issued' = issued]_vars
  /\ [][(effectPending /\ ~effectPending' /\ handler = "handleMapClick")
          => /\ issued' = issued
             /\ position' = position
             /\ IF showStations
                THEN fetchTimers' = Append(fetchTimers, position)
                ELSE fetchTimers' = fetchTimers]_vars
  /\ [][(fetchTimers # <<>> /\ fetchTimers' # fetchTimers
         /\ Len(fetchTimers') < Len(fetchTimers))
          => /\ fetchTimers' = Tail(fetchTimers)
             /\ issued' = issued + 1
             /\ \E r \in Res :
                  /\ pc[r] = "idle"
                  /\ pc'[r] = "running"
                  /\ args'[r] = QueryFor(Head(fetchTimers))]_vars
  /\ [][Len(fetchTimers') > Len(fetchTimers) => showStations]_vars

\* the user enabled station display, which issued two resolutions, and then
\* clicked on the map: the third resolution, for the clicked position, has
\* been issued
C16_Witness ==
  /\ handler = "fetchTimer"
  /\ actions = 2
  /\ issued = 3
  /\ showStations
  /\ ~isUserLocation
  /\ \E p \in ClickPositions :
       /\ position.latitude = p.latitude
       /\ position.longitude = p.longitude
  /\ \E r \in Res :
       /\ pc[r] = "running"
       /\ seq[r] = issued
       /\ args[r] = QueryFor(position)

\* the list holds a station and every distance in it is measured from the
\* point of the query a
MeasuredFrom(list, a) ==
  /\ list # <<>>
  /\ \A i \in 1..Len(list) :
       list[i].distance =
         calculateDistance(a.latitude, a.longitude,
                           list[i].latitude, list[i].longitude)

\* C18: a pin move leaves the resolutions under way as they are; a
\* resolution ends only by returning or throwing to fetchStations, and when
\* it returns its list is displayed whatever the pin is by then and whatever
\* has been displayed since it was issued: the list of an older query can
\* replace the list of a newer query for the current pin.
C18_OlderResultOverwrites ==
  /\ [][position' # position
          => \A r \in Res :
               pc[r] = "running"
                 => \/ pc'[r] = "running" /\ args'[r] = args[r]
                    \/ handler' = "failed"]_vars
  /\ [][\A r \in Res :
          (pc[r] = "running" /\ pc'[r] # "running")
            => /\ handler' \in {"fetched", "failed"}
               /\ applied' = Append(applied, [seq |-> seq[r],
                                              args |-> args[r]])
               /\ handler' = "fetched"
                    => MeasuredFrom(stations', args[r])]_vars

\* the resolution for the current pin was displayed first, and the older
\* resolution, issued for the pin as it was before the click, was displayed
\* after it: the list on display is measured from the old pin
C18_Witness ==
  /\ handler = "fetched"
  /\ Len(applied) >= 2
  /\ applied[Len(applied) - 1].seq > applied[Len(applied)].seq
  /\ applied[Len(applied) - 1].args = QueryFor(position)
  /\ applied[Len(applied)].args # QueryFor(position)
  /\ MeasuredFrom(stations, applied[Len(applied)].args)
  /\ ~MeasuredFrom(stations, QueryFor(position))
  /\ \A r \in Res : pc[r] = "idle"

\* MBTA_LINES key of the Green branch x
GreenFamily(x) ==
  CASE x = "B" -> "Green-B"
    [] x = "C" -> "Green-C"
    [] x = "D" -> "Green-D"
    [] OTHER -> "Green-E"

\* the name getLineInfo reads from a route that has attributes
NameOf(route) == OrStr(route.long_name, route.short_name)

\* neither the name nor the id of the route holds Red, Orange or Blue
NoEarlierFamily(route) ==
  \A w \in {Str_Red, Str_Orange, Str_Blue} :
    ~includes(NameOf(route), w) /\ ~includes(route.id, w)

\* C21: a route with attributes whose name is "Green Line X" or
\* "Green Line X Branch", X one of B, C, D, E, and which names no Red,
\* Orange or Blue, is classified to Green-X.
C21_GreenBranchClassified ==
  (output.fn = "getLineInfo" /\ input.arg.hasAttrs
   /\ NoEarlierFamily(input.arg))
    => \A x \in Branches :
         NameOf(input.arg) \in {GreenLine(x), GreenLineBranch(x)}
           => output.value = GreenFamily(x)

\* the words by which getLineInfo knows a line family
FamilyWords == {Str_Red, Str_Orange, Str_Blue, Str_Green, Str_Mattapan}

\* the route has no attributes, or neither its name nor its id holds the
\* word of a line family
NoKnownFamily(route) ==
  \/ ~route.hasAttrs
  \/ \A w \in FamilyWords :
       ~includes(NameOf(route), w) /\ ~includes(route.id, w)

\* a Green route without a branch letter: Green is in its name or id, none
\* of B, C, D, E is in its name, and it names no other family
UnbranchedGreen(route) ==
  /\ route.hasAttrs
  /\ includes(NameOf(route), Str_Green) \/ includes(route.id, Str_Green)
  /\ \A x \in Branches : ~includes(NameOf(route), <<x>>)
  /\ \A w \in FamilyWords \ {Str_Green} :
       ~includes(NameOf(route), w) /\ ~includes(route.id, w)

\* C22: getLineInfo returns for every route, a key of MBTA_LINES or null:
\* null for a route without attributes and for a route that names no known
\* family, Green-B for a Green route without a branch letter; and a route
\* classified to null is in no Station's routes: the station of a stop at
\* which such a route and the Red Line call has the Red Line only.
C22_NoMatchIsNull ==
  /\ output.fn = "getLineInfo"
       => /\ output.value \in MBTA_LINES \cup {"null"}
          /\ NoKnownFamily(input.arg) <=> output.value = "null"
          /\ UnbranchedGreen(input.arg) => output.value = "Green-B"
  /\ output.fn = "stations"
       => /\ Len(output.value) = 1
          /\ \A i \in 1..Len(output.value[1].routes) :
               output.value[1].routes[i].line \in MBTA_LINES
          /\ NoKnownFamily(input.arg)
               => /\ Len(output.value[1].routes) = 1
                  /\ output.value[1].routes[1].line = "Red"
                  /\ output.value[1].routes[1].id = Str_Red

\* a route with attributes that names no family was served with the Red
\* Line at a stop, and the station shows the Red Line alone
C22_Witness ==
  /\ output.fn = "stations"
  /\ input.arg.hasAttrs
  /\ input.arg.id = <<"1">>
  /\ NoKnownFamily(input.arg)
  /\ Len(output.value[1].routes) = 1

\* the positions in LineRules of the tests that are true of the route
MatchingRules(route) ==
  {i \in 1..Len(LineRules) : RuleMatches(LineRules[i], route)}

\* C23: for a route with attributes of which at least one of the eight
\* tests is true, getLineInfo returns the line of the first true test in
\* the order Red, Orange, Blue, Green-B, Green-C, Green-D, Green-E, Mattapan.
C23_FirstRuleWins ==
  (output.fn = "getLineInfo" /\ input.arg.hasAttrs
   /\ MatchingRules(input.arg) # {})
    => \E i \in MatchingRules(input.arg) :
         /\ \A j \in MatchingRules(input.arg) : i <= j
         /\ output.value = LineRules[i]

\* a route of which the tests of two families are true (Orange by its id,
\* Red by its name) was classified, to the earlier one
C23_Witness ==
  /\ output.fn = "getLineInfo"
  /\ input.arg.hasAttrs
  /\ {1, 2} \subseteq MatchingRules(input.arg)
  /\ output.value = "Red"

\* C24: the distance between two points is the same in both orders, and the
\* distance from a point to itself is 0.
C24_DistanceSymmetric ==
  output.fn = "calculateDistance"
    => /\ output.value.ab = output.value.ba
       /\ output.value.aa = 0

\* the distance between two points that differ in latitude and in longitude
\* was measured in both orders, and it is more than a mile
C24_Witness ==
  /\ output.fn = "calculateDistance"
  /\ input.arg[1].latitude # input.arg[2].latitude
  /\ input.arg[1].longitude # input.arg[2].longitude
  /\ output.value.ab > 10000
  /\ output.value.ba > 10000

\* the attempt during which the event at position i of the trace happened:
\* the number of requests up to i
AttemptAt(tr, i) ==
  Cardinality({j \in 1..i : tr[j].ev = "request"})

\* the event at position i is a response with a status that is neither 2xx
\* nor 429
HttpErrorAt(tr, i) == tr[i].ev = "response" /\ tr[i].info = 500

\* a response with a status that is neither 2xx nor 429 ends makeApiCall
\* with a throw, whatever the attempt
C25_HttpErrorThrowsAtOnce ==
  \A r \in Res :
    pc[r] = "makeApiCall"
      => \A i \in 1..Len(call[r].trace) :
           HttpErrorAt(call[r].trace, i)
             => i = Len(call[r].trace) /\ call[r].state = "threw"

\* C25: a response with a status that is neither 2xx nor 429 makes
\* makeApiCall throw to its caller when it comes on the last attempt; on an
\* earlier attempt it is followed, as a rejection is, by a wait of
\* 2^attempt seconds and by the request of the next attempt.
C25_HttpErrorThrowsOnLastAttempt ==
  \A r \in Res :
    pc[r] = "makeApiCall"
      => LET c == call[r]
             tr == c.trace
         IN \A i \in 1..Len(tr) :
              HttpErrorAt(tr, i)
                => IF AttemptAt(tr, i) = maxRetries
                   THEN i = Len(tr) /\ c.state = "threw"
                   ELSE \/ i = Len(tr) /\ c.state = "delay"
                        \/ /\ i + 2 <= Len(tr)
                           /\ tr[i + 1].ev = "wait"
                           /\ tr[i + 1].info >= (2 ^ AttemptAt(tr, i)) * 1000
                           /\ tr[i + 2].ev = "request"
                           /\ tr[i + 2].info = AttemptAt(tr, i) + 1

\* a call whose first attempt met status 500 waited, asked again, met 500
\* on its last attempt and threw
C25_Witness ==
  LET c == call[1]
  IN /\ pc[1] = "makeApiCall"
     /\ c.state = "threw"
     /\ Len(c.trace) = 5
     /\ HttpErrorAt(c.trace, 2)
     /\ c.trace[3].ev = "wait"
     /\ c.trace[4].ev = "request"
     /\ HttpErrorAt(c.trace, 5)

\* the positions of the waits in a trace
WaitsOf(tr) == {i \in 1..Len(tr) : tr[i].ev = "wait"}

\* the waits of a call are 1 s, then 2 s, then 4 s: the wait after attempt n
\* is 2^(n-1) seconds
C26_BackoffFromOneSecond ==
  \A r \in Res :
    pc[r] = "makeApiCall"
      => \A i \in WaitsOf(call[r].trace) :
           call[r].trace[i].info
             = (2 ^ (AttemptAt(call[r].trace, i) - 1)) * 1000

\* C26: every wait of makeApiCall follows a response that is a 429, a
\* rejection or an HTTP error, and lasts 2^n seconds after attempt n
\* whichever of these it follows: 2 seconds before the first retry, and twice
\* the previous wait each time after.
C26_BackoffFromTwoSeconds ==
  \A r \in Res :
    pc[r] = "makeApiCall"
      => LET tr == call[r].trace
         IN \A i \in WaitsOf(tr) :
              /\ i > 1
              /\ tr[i - 1].ev = "response"
              /\ tr[i - 1].info \in {429, 500, 0}
              /\ tr[i].info = (2 ^ AttemptAt(tr, i)) * 1000
              /\ AttemptAt(tr, i) = 1 => tr[i].info = 2000
              /\ \A j \in WaitsOf(tr) :
                   AttemptAt(tr, j) + 1 = AttemptAt(tr, i)
                     => tr[i].info = 2 * tr[j].info

\* a call waited 2 seconds after a rejection on attempt 1 and 4 seconds
\* after a 429 on attempt 2
C26_Witness ==
  LET tr == call[1].trace
  IN /\ pc[1] = "makeApiCall"
     /\ Len(tr) = 6
     /\ tr[2].ev = "response" /\ tr[2].info = 0
     /\ tr[3].ev = "wait" /\ tr[3].info = 2000
     /\ tr[5].ev = "response" /\ tr[5].info = 429
     /\ tr[6].ev = "wait" /\ tr[6].info = 4000

\* in this step a request to the endpoint is issued for resolution r: the
\* first request of a makeApiCall, or the request of a later attempt
Issues(r, endpoint) ==
  /\ call'[r] # call[r]
  /\ call'[r].state = "fetching"
  /\ call'[r].url.endpoint = endpoint

\* the makeApiCall of r has ended without a body that has data: it threw,
\* or returned undefined, or returned a body without data
CallFailed(r) ==
  /\ CallDone(r)
  /\ call[r].state = "threw" \/ ~call[r].result.hasData

\* C27: within a resolution a stops request is issued only when the route
\* list has been obtained, from the cache or from a request that returned,
\* and a per-stop request only when a stops response with data has been
\* received; a resolution whose route-list request threw or returned
\* undefined, or whose stops request threw or brought no data, throws and
\* issues no further request.
C27_RequestsOrdered ==
  /\ [][\A r \in Res :
          /\ Issues(r, "routes")
               => \/ pc[r] = "idle"
                  \/ pc[r] = "routesCall" /\ call[r].state = "delay"
          /\ Issues(r, "stops")
               => \/ pc[r] = "haveRoutes" /\ routesData[r].kind = "object"
                  \/ pc[r] = "stopsCall" /\ call[r].state = "delay"
          /\ Issues(r, "stopRoutes")
               => \/ /\ pc[r] = "stopsCall"
                     /\ call[r].state = "returned"
                     /\ call[r].result.hasData
                  \/ pc[r] \in {"stopCall", "stopDelay"}
          /\ (pc'[r] = "haveRoutes" /\ pc[r] # "haveRoutes")
               => \/ /\ pc[r] = "idle"
                     /\ routesCache.kind = "object"
                     /\ routesData'[r] = routesCache
                  \/ /\ pc[r] = "routesCall"
                     /\ call[r].state = "returned"
                     /\ routesData'[r] = call[r].result
          /\ ( /\ \/ pc[r] = "routesCall" /\ call[r].state = "threw"
                  \/ pc[r] = "haveRoutes" /\ routesData[r].kind = "undefined"
                  \/ pc[r] = "stopsCall" /\ CallFailed(r)
               /\ <<pc[r], call[r]>>' # <<pc[r], call[r]>> )
               => /\ pc'[r] = "done"
                  /\ ret'[r] = Threw
                  /\ call'[r] = NoCall]_vars
  /\ [](\A r \in Res :
          /\ pc[r] \in {"stopsCall", "stopCall", "stopDelay"}
               => routesData[r].kind = "object"
          /\ pc[r] \in {"stopCall", "stopDelay"}
               => /\ allStopIds[r] # <<>>
                  /\ call[r].url.endpoint = "stopRoutes")

\* the first resolution, which obtained the route list by request and then
\* the stops, is at its second per-stop request, and the second resolution,
\* which took the route list from the cache, has thrown after its stops
\* request failed
C27_Witness ==
  /\ pc[1] = "stopCall"
  /\ cur[1] = 2
  /\ call[1].state = "fetching"
  /\ routesData[1] = Body(AllRoutes)
  /\ routesCache = Body(AllRoutes)
  /\ pc[2] = "done"
  /\ ret[2] = Threw
  /\ faults = MaxFaults

\* C28: the step in which a route-list request that threw leaves
\* getRoutesData changes neither routesCache nor routesCacheTimestamp, and
\* the cache is written by no step but that of a route-list request that
\* returned.
C28_FailedRefreshKeepsCache ==
  [][/\ \A r \in Res :
          (pc[r] = "routesCall" /\ call[r].state = "threw"
           /\ pc'[r] # pc[r])
            => /\ routesCache' = routesCache
               /\ routesCacheTimestamp' = routesCacheTimestamp
     /\ <<routesCache, routesCacheTimestamp>>'
          # <<routesCache, routesCacheTimestamp>>
          => \E r \in Res :
               /\ pc[r] = "routesCall"
               /\ call[r].state = "returned"
               /\ pc'[r] = "haveRoutes"]_vars

\* the route list stored at time 0 has expired, the request of the second
\* resolution to refresh it has thrown after two attempts, and the entry
\* and its timestamp are as they were
C28_Witness ==
  /\ pc[1] = "done"
  /\ pc[2] = "routesCall"
  /\ call[2].state = "threw"
  /\ Len(ResponsesOf(call[2])) = maxRetries
  /\ now[2] = 300000
  /\ routesCache = Body(AllRoutes)
  /\ routesCacheTimestamp = 0

\* C29: in a list that fetchNearbyStations has returned, no two Stations
\* have names that are equal once put in lower case and trimmed.
C29_NamesUnique ==
  \A r \in Res :
    ret[r].status = "returned"
      => \A i, j \in 1..Len(ret[r].value) :
           i # j => trim(toLowerCase(ret[r].value[i].name))
                      # trim(toLowerCase(ret[r].value[j].name))

\* two of the ranked groups had names that differ as written and are equal
\* in lower case and trimmed, a third had another name, and the list
\* returned has two Stations
C29_Witness ==
  /\ ret[1].status = "returned"
  /\ Len(stationsWithDistance[1]) = 3
  /\ Len(ret[1].value) = 2
  /\ \E i, j \in 1..Len(stationsWithDistance[1]) :
       /\ stationsWithDistance[1][i].stationGroup.name
            # stationsWithDistance[1][j].stationGroup.name
       /\ trim(toLowerCase(stationsWithDistance[1][i].stationGroup.name))
            = trim(toLowerCase(stationsWithDistance[1][j].stationGroup.name))

\* in this step a callback of the initial getCurrentPosition is called
StartupCallbackStep == startup = "pending" /\ startup' = "settled"

\* in this step the 20 s fallback timer of the mount effect fires
StartupTimerStep ==
  geolocationTimeout /\ ~geolocationTimeout' /\ startup' = startup

\* C30: a callback of the initial geolocation request or a firing of the
\* fallback timer that comes when the location has been set changes none of
\* position, userLocation, error and loading; one that does take effect
\* comes when the location has not been set and sets it, and once set it
\* stays set, so at most one of them takes effect.
C30_OneStartupOutcome ==
  [][/\ (StartupCallbackStep \/ StartupTimerStep)
          => IF isLocationSet
             THEN /\ UNCHANGED <<position, userLocation, error, loading>>
                  /\ handler' = "ignored"
             ELSE /\ isLocationSet'
                  /\ handler' \in {"successCallback", "errorCallback",
                                   "geolocationTimeout"}
                  /\ position' # NoPosition
                  /\ ~loading'
     /\ isLocationSet => isLocationSet']_vars

\* the fallback timer set the Boston position and its message, and the
\* callback of the geolocation request, which came after it, was ignored
C30_Witness ==
  /\ handler = "ignored"
  /\ startup = "settled"
  /\ isLocationSet
  /\ ~geolocationTimeout
  /\ error = TimeoutMessage
  /\ ~loading
  /\ AtDefault(position)
  /\ AtDefault(userLocation)

\* C31: after mount, whether the geolocation provider succeeds, fails or
\* never answers, loading becomes false with a pin position that is not
\* null, and stays so, given that the fallback timer fires unless cleared.
C31_LeavesGettingLocation ==
  <>[](~loading /\ position # NoPosition /\ userLocation # NoPosition)

\* the provider has not answered, the fallback timer has fired, and the map
\* is shown with the pin on the default coordinate
C31_Witness ==
  /\ startup = "pending"
  /\ handler = "geolocationTimeout"
  /\ ~geolocationTimeout
  /\ ~loading
  /\ position # NoPosition
  /\ position = userLocation

\* C32: each user action causes at most one call of fetchNearbyStations, made
\* for the pin position in effect after the action: as long as no
\* resolution has ended (so that none has failed and been followed up) the
\* calls issued are no more than the user's actions, and a step that issues
\* a call issues it for the pin as the step leaves it.
C32_OneResolvePerAction ==
  /\ [](applied = <<>> => issued <= actions)
  /\ [][issued' # issued
          => \E r \in Res :
               /\ pc[r] = "idle"
               /\ pc'[r] = "running"
               /\ args'[r] = QueryFor(position')]_vars

\* the effect is due and will set the timer that calls fetchStations
FetchDue == effectPending /\ EffectFetches(position, showStations)

\* C33: after a failed resolution the component issues no further call on
\* its own: the handler of the failure leaves no effect due that will call
\* fetchStations, and the effect that runs after it sets no timer.
C33_IdleAfterFailure ==
  /\ [](handler = "failed" => ~FetchDue)
  /\ [][(handler = "failed" /\ handler' = "effect")
          => fetchTimers' = fetchTimers]_vars

\* after one click on the stations button, a third call of
\* fetchNearbyStations has been issued by the timer of the effect, after a
\* resolution has ended
RefetchAfterFailure ==
  /\ actions = 1
  /\ issued = 3
  /\ handler = "fetchTimer"
  /\ AtDefault(position)
  /\ error = FetchMessage

\* C34: while station display is enabled, loadingStations is true whenever
\* a resolution issued by the component is under way.
C34_LoadingWhileInFlight ==
  (showStations /\ \E r \in Res : pc[r] = "running") => loadingStations

\* the bodies with which the route-list endpoint answers with status 200
RoutePayloads ==
  {o.body : o \in {x \in Outcomes(RoutesUrl) : x.status = 200}}

\* C35: when getRoutesData returns without a request, the value is the
\* cache entry, the entry is the body of a route-list request that ended
\* with status 200, and that request was started at the entry's timestamp,
\* less than 5 minutes before: an entry and its timestamp are written
\* together, by the step that ends a returned route-list call, as the value
\* returned and the time at which the call was started.
C35_CacheHitIsFresh ==
  /\ [][/\ \A r \in Res :
             /\ (pc[r] = "idle" /\ pc'[r] = "haveRoutes")
                  => /\ call'[r] = NoCall
                     /\ routesData'[r] = routesCache
                     /\ routesCache \in RoutePayloads
                     /\ routesCacheTimestamp <= clock
                     /\ clock - routesCacheTimestamp < 300000
             /\ (pc[r] = "idle" /\ pc'[r] = "routesCall")
                  => now'[r] = clock /\ Issues(r, "routes")
             /\ (pc[r] = "routesCall" /\ pc'[r] = "routesCall")
                  => now'[r] = now[r]
        /\ <<routesCache, routesCacheTimestamp>>'
             # <<routesCache, routesCacheTimestamp>>
             => \E r \in Res :
                  /\ pc[r] = "routesCall"
                  /\ call[r].state = "returned"
                  /\ routesCache' = call[r].result
                  /\ routesCacheTimestamp' = now[r]]_vars
  /\ [](\A r \in Res :
          (pc[r] = "routesCall" /\ call[r].state = "returned"
           /\ IsTruthy(call[r].result))
            => LET resp == ResponsesOf(call[r])
               IN /\ resp[Len(resp)].info = 200
                  /\ resp[Len(resp)].body = call[r].result)
  /\ [](IsTruthy(routesCache) => routesCache \in RoutePayloads)

\* the second resolution, called 299999 ms after the request that brought
\* the entry was started, has the route list from the cache without a
\* request, after a fault of the API
C35_Witness ==
  /\ pc[2] = "haveRoutes"
  /\ call[2] = NoCall
  /\ now[2] = 299999
  /\ routesCacheTimestamp = 0
  /\ routesData[2] = routesCache
  /\ routesCache = Body(AllRoutes)
  /\ faults > 0

====
